---- MODULE Spec2Model ----
(***************************************************************************)
(* Vector service: the MongoDB change-streams watcher                      *)
(* (MongoChangeStreamsWatcher), the reconcile of one document against the  *)
(* Qdrant index, and the bulk sync route POST /sync/mongo.                 *)
(*                                                                         *)
(* The watcher is one object whose async methods interleave at every      *)
(* await.  A method call in progress is a task resting at the await it is  *)
(* suspended on; the methods keep no locals across an await (they read     *)
(* and write this.* only), so the tasks resting at one await are counted.  *)
(***************************************************************************)
EXTENDS Integers, Sequences, FiniteSets, TLC

VARIABLES
    isRunning,          \* this.isRunning
    client,             \* this.client: "null" or the state of the MongoClient it refers to
    changeStream,       \* this.changeStream: "null" or the state of the ChangeStream
    reconnectAttempts,  \* this.reconnectAttempts
    enabled,            \* config.MONGO_CHANGE_STREAMS_ENABLED
    mongoUp,            \* environment: MongoDB accepts connections
    orphanStreams,      \* open change streams (listeners bound) this.changeStream no longer refers to
    tasks,              \* number of method calls suspended at each await
    intent,             \* history: the last call of the owner: "start", "stop", or "cancel" for a
                        \* stop() made while a start() is connecting or a handleError waits
                        \* out its reconnect delay ("none" before any call)
    last,               \* history: what the last step of the watcher did
    index,              \* the Qdrant collection: its points
    nextId,             \* the ids uuidv4() has handed out so far
    handlers,           \* the handleChangeEvent calls in progress, in arrival order
    delivered,          \* number of 'change' events emitted so far
    prev,               \* history: the handleChangeEvent call that returned last
    mongoReadOnly,      \* features.mongoReadOnly
    collection,         \* the source collection: its documents, in cursor order
    sync,               \* the POST /sync/mongo request in progress: its body, locals and position
    stats,              \* its `stats` object
    calls,              \* history: the calls it has made to the source, the embedder and the index
    replies,            \* history: the replies sent so far, oldest first
    request,            \* the HTTP request on its way through the preHandler hook and its route
    chunked,            \* a call of textChunker.chunk(): its arguments and what it returned
    chunking,           \* a call of textChunker.chunk() in progress: its arguments, its locals
                        \* and the windows its loop has taken so far
    reranked            \* a call of applyMMR / applyDiversityReranking: arguments and result

lifecycleVars == <<isRunning, client, changeStream, reconnectAttempts, enabled,
                   mongoUp, orphanStreams, tasks, intent, last>>

eventVars == <<index, nextId, handlers, delivered, prev>>

bulkVars == <<mongoReadOnly, collection, sync, stats, calls, replies>>

callVars == <<request, chunked, chunking, reranked>>

vars == <<lifecycleVars, eventVars, bulkVars, callVars>>

(***************************************************************************)
(* Program constants and bounds                                            *)
(***************************************************************************)
maxReconnectAttempts == 10

\* handleError calls that may be suspended at once
MaxPending == 3
\* the same where the reconnect budget is run down (at least maxReconnectAttempts)
MaxFlood == 10
\* handleError calls that may be past their reconnect delay at once
MaxActive == 2
\* start()/stop() calls of the owner that may be in progress at once
MaxUserCalls == 2
\* unreferenced open change streams that are told apart
MaxOrphans == 1
\* 'change' events emitted in one behaviour
MaxEvents == 2
\* handleChangeEvent calls in progress at once
MaxInFlight == 2

(***************************************************************************)
(* Awaits.  h*: inside handleError; u*: inside a start()/stop() of the     *)
(* owner (index.ts).                                                       *)
(*   Delay      handleError awaits the reconnect delay                     *)
(*   CsClose    stop() awaits this.changeStream.close()                    *)
(*   ClClose    stop() awaits this.client.close()                          *)
(*   Start      handleError awaits stop(), start() comes next              *)
(*   Conn       connect() awaits client.connect(); the client is           *)
(*              this.client                                                *)
(*   ConnOrph   the same, this.client has been replaced or cleared since   *)
(*   Run        start() awaits setupChangeStream()                         *)
(***************************************************************************)
HStages == {"hDelay", "hCsClose", "hClClose", "hStart", "hConn", "hConnOrph", "hRun"}
UStages == {"uCsClose", "uClClose", "uConn", "uConnOrph", "uRun"}
Stages  == HStages \cup UStages

RECURSIVE SumOver(_, _)
SumOver(f, S) ==
    IF S = {} THEN 0
    ELSE LET s == CHOOSE x \in S : TRUE IN f[s] + SumOver(f, S \ {s})

Pending(S) == SumOver(tasks, S)

\* A task leaves await a for await b; "call" is a fresh call, "end" its return.
Move(f, a, b) ==
    [s \in Stages |-> f[s] - (IF s = a THEN 1 ELSE 0) + (IF s = b THEN 1 ELSE 0)]

\* this.client stops referring to the client a suspended connect() is opening.
Orphaned(f) ==
    [s \in Stages |->
        CASE s = "hConn"     -> 0
          [] s = "uConn"     -> 0
          [] s = "hConnOrph" -> f["hConnOrph"] + f["hConn"]
          [] s = "uConnOrph" -> f["uConnOrph"] + f["uConn"]
          [] OTHER           -> f[s]]

Min(a, b) == IF a < b THEN a ELSE b

Quiescent == \A s \in Stages : tasks[s] = 0

(***************************************************************************)
(* TextChunker (chunk/textChunker.ts).  A text is a sequence of            *)
(* one-character strings; offsets are JavaScript's (0-based, end           *)
(* exclusive).                                                             *)
(***************************************************************************)
Max(a, b) == IF a > b THEN a ELSE b

Abs(a) == IF a < 0 THEN 0 - a ELSE a

\* avgTokensPerChar = 0.25, as its inverse
charsPerToken == 4

\* the defaults of chunk()'s options
defaultChunkSize == 400
defaultOverlap == 15
defaultMinChunkSize == 50

\* the characters \s matches, and those [.!?] matches
IsSpace(c) == c \in {" ", "\n", "\t"}

IsSentenceEnd(c) == c \in {".", "!", "?"}

\* text.slice(from, to)
slice(text, from, to) == SubSeq(text, from + 1, to)

\* String.prototype.trim()
trim(text) ==
    LET keep == {i \in 1..Len(text) : ~IsSpace(text[i])}
    IN  IF keep = {} THEN <<>>
        ELSE LET lo == CHOOSE i \in keep : \A j \in keep : i <= j
                 hi == CHOOSE i \in keep : \A j \in keep : j <= i
             IN  SubSeq(text, lo, hi)

\* Math.ceil(text.length * 0.25)
estimateTokens(text) == (Len(text) + charsPerToken - 1) \div charsPerToken

\* Math.ceil(tokens / 0.25)
tokensToChars(tokens) == tokens * charsPerToken

\* The matches of /[.!?]\s+/g in text.slice(start, end), each as the offset in
\* text at which it ends: a sentence end followed by white space, taken to the
\* end of that white space or of the slice.
sentenceEndings(text, start, end) ==
    LET begins == {i \in start..(end - 2) : IsSentenceEnd(text[i + 1]) /\ IsSpace(text[i + 2])}
        endOf(i) == CHOOSE e \in (i + 2)..end :
                        /\ \A j \in (i + 1)..(e - 1) : IsSpace(text[j + 1])
                        /\ e = end \/ ~IsSpace(text[e + 1])
    IN  {endOf(i) : i \in begins}

findSentenceBoundary(text, targetPosition) ==
    LET searchRadius == Min(200, Len(text) \div 10)
        start == Max(0, targetPosition - searchRadius)
        end == Min(Len(text), targetPosition + searchRadius)
        near == {e \in sentenceEndings(text, start, end) :
                    Abs(e - targetPosition) < searchRadius}
    IN  IF near = {} THEN targetPosition
        ELSE CHOOSE e \in near :
                \A f \in near :
                    \/ Abs(e - targetPosition) < Abs(f - targetPosition)
                    \/ Abs(e - targetPosition) = Abs(f - targetPosition) /\ e <= f

\* A window's end where the nearest sentence boundary is taken however far it is
windowEndAlwaysAdopts(text, currentIndex, targetChunkChars, preserveSentences) ==
    LET endIndex == Min(currentIndex + targetChunkChars, Len(text))
    IN  IF preserveSentences /\ endIndex < Len(text)
        THEN findSentenceBoundary(text, endIndex)
        ELSE endIndex

\* One window of chunk()'s loop: its end offset
windowEnd(text, currentIndex, targetChunkChars, preserveSentences) ==
    LET endIndex == Min(currentIndex + targetChunkChars, Len(text))
    IN  IF preserveSentences /\ endIndex < Len(text)
        THEN LET sentenceBoundary == findSentenceBoundary(text, endIndex)
             IN  IF 10 * Abs(sentenceBoundary - endIndex) < 3 * targetChunkChars
                 THEN sentenceBoundary
                 ELSE endIndex
        ELSE endIndex

\* The next window's start where the overlap may hold it in place
nextIndexWithoutProgress(currentIndex, endIndex, overlapChars) ==
    Max(currentIndex, endIndex - overlapChars)

\* `currentIndex = Math.max(currentIndex + 1, endIndex - overlapChars)`
nextIndex(currentIndex, endIndex, overlapChars) ==
    Max(currentIndex + 1, endIndex - overlapChars)

RECURSIVE chunkLoop(_, _, _, _, _, _, _)
chunkLoop(text, currentIndex, chunks, targetChunkChars, overlapChars, preserveSentences, minChunkSize) ==
    IF ~(currentIndex < Len(text)) THEN chunks
    ELSE LET endIndex == windowEnd(text, currentIndex, targetChunkChars, preserveSentences)
             chunkText == trim(slice(text, currentIndex, endIndex))
             out == IF Len(chunkText) >= minChunkSize
                    THEN Append(chunks, [text |-> chunkText,
                                         startIndex |-> currentIndex,
                                         endIndex |-> endIndex,
                                         chunkIndex |-> Len(chunks),
                                         tokens |-> estimateTokens(chunkText)])
                    ELSE chunks
         IN  IF endIndex >= Len(text) THEN out
             ELSE chunkLoop(text, Max(currentIndex + 1, endIndex - overlapChars), out,
                            targetChunkChars, overlapChars, preserveSentences, minChunkSize)

\* chunk() without its branch for a text shorter than minChunkSize
chunkWithoutShortCase(text, chunkSize, overlap, preserveSentences, minChunkSize) ==
    chunkLoop(text, 0, <<>>, tokensToChars(chunkSize),
              (tokensToChars(chunkSize) * overlap) \div 100,
              preserveSentences, minChunkSize)

\* chunk()'s loop where chunkIndex counts every window, kept or dropped
RECURSIVE chunkLoopCountingWindows(_, _, _, _, _, _, _, _)
chunkLoopCountingWindows(text, currentIndex, chunks, window, targetChunkChars, overlapChars, preserveSentences, minChunkSize) ==
    IF ~(currentIndex < Len(text)) THEN chunks
    ELSE LET endIndex == windowEnd(text, currentIndex, targetChunkChars, preserveSentences)
             chunkText == trim(slice(text, currentIndex, endIndex))
             out == IF Len(chunkText) >= minChunkSize
                    THEN Append(chunks, [text |-> chunkText,
                                         startIndex |-> currentIndex,
                                         endIndex |-> endIndex,
                                         chunkIndex |-> window,
                                         tokens |-> estimateTokens(chunkText)])
                    ELSE chunks
         IN  IF endIndex >= Len(text) THEN out
             ELSE chunkLoopCountingWindows(text, Max(currentIndex + 1, endIndex - overlapChars),
                                           out, window + 1, targetChunkChars, overlapChars,
                                           preserveSentences, minChunkSize)

chunkCountingWindows(text, chunkSize, overlap, preserveSentences, minChunkSize) ==
    IF Len(text) < minChunkSize
    THEN << [text |-> trim(text), startIndex |-> 0, endIndex |-> Len(text),
             chunkIndex |-> 0, tokens |-> estimateTokens(text)] >>
    ELSE chunkLoopCountingWindows(text, 0, <<>>, 0, tokensToChars(chunkSize),
                                  (tokensToChars(chunkSize) * overlap) \div 100,
                                  preserveSentences, minChunkSize)

\* chunk(text, {chunkSize, overlap, preserveSentences, minChunkSize})
chunk(text, chunkSize, overlap, preserveSentences, minChunkSize) ==
    IF Len(text) < minChunkSize
    THEN << [text |-> trim(text), startIndex |-> 0, endIndex |-> Len(text),
             chunkIndex |-> 0, tokens |-> estimateTokens(text)] >>
    ELSE chunkLoop(text, 0, <<>>, tokensToChars(chunkSize),
                   (tokensToChars(chunkSize) * overlap) \div 100,
                   preserveSentences, minChunkSize)

(***************************************************************************)
(* Documents, change events and the vector index                           *)
(***************************************************************************)
DocIds == {"d1", "d2"}

\* The documents the change feed reports on; the other documents' points are
\* in the index from earlier syncs.
WatchedDocIds == {"d1"}

\* The texts a document's text field may hold, by name.
TextIds == {"short", "long", "blank"}

Repeat(c, n) == [i \in 1..n |-> c]

TextOf(t) ==
    CASE t = "short" -> <<"H", "i", ".", " ", "y", "o", "u", " ">>
      [] t = "long"  -> Repeat("a", 1595) \o <<".", " ">> \o Repeat("b", 103)
      [] t = "blank" -> Repeat(" ", 60)

\* What doc[textField] may be: absent, '', not a string, or one of the texts.
FieldValues == {"undefined", "empty", "number"} \cup TextIds

\* `!text || typeof text !== 'string'`
invalidText(v) ==
    LET falsy == v \in {"undefined", "empty"}
        isString == v \in {"empty"} \cup TextIds
    IN  falsy \/ ~isString

\* textChunker.chunkForEmbedding(text, docId, {chunkSize, overlap}) under the
\* watcher's options (chunkSize 400, overlap 15): the chunks of each text
chunksOf ==
    [t \in TextIds |-> chunk(TextOf(t), defaultChunkSize, defaultOverlap, TRUE,
                             defaultMinChunkSize)]

\* A change event {operationType, documentKey, fullDocument}: key is
\* documentKey._id ("none": the event carries no documentKey), full is
\* fullDocument's text field ("none": the event carries no fullDocument).
ChangeEvents ==
    [op : {"insert", "update"}, key : WatchedDocIds, full : {"none"} \cup FieldValues]
        \cup [op : {"delete"}, key : WatchedDocIds, full : {"none"}]
        \cup [op : {"insert"}, key : {"none"}, full : {"none"}]

\* The points chunkForEmbedding and the point mapping build for a document:
\* one per chunk, ids fresh from `base` on.  src names the text the chunk is
\* cut from; the payload is that chunk's fields.
pointsFor(docId, src, base) ==
    {[id |-> base + k - 1, docId |-> docId, src |-> src,
      chunkIndex |-> chunksOf[src][k].chunkIndex] : k \in 1..Len(chunksOf[src])}

payload(p) ==
    LET c == chunksOf[p.src][p.chunkIndex + 1]
    IN  [docId |-> p.docId, chunkIndex |-> c.chunkIndex, startIndex |-> c.startIndex,
         endIndex |-> c.endIndex, text |-> c.text, tokens |-> c.tokens]

\* deleteByDocId that removes nothing
deleteByDocIdKeepsAll(idx, docId) == idx

\* qdrantClient.deleteByDocId(docId), accepted by the index
deleteByDocId(idx, docId) == {p \in idx : p.docId # docId}

\* qdrantClient.upsertPoints(points), accepted by the index
upsertPoints(idx, points) ==
    {p \in idx : \A q \in points : q.id # p.id} \cup points

pointsOf(idx, docId) == {p \in idx : p.docId = docId}

(***************************************************************************)
(* MongoChangeStreamsWatcher: the methods, each cut at its awaits          *)
(***************************************************************************)

\* stop(), `if (this.client) { await this.client.close(); ... }`: the call of close()
stopClient(from, cl, done) ==
    IF client # "null"
    THEN /\ client' = "closed"
         /\ tasks' = Move(tasks, from, cl)
    ELSE /\ tasks' = Move(tasks, from, done)
         /\ UNCHANGED client

\* stop() from its call to its first await (or its return)
stop(from, cs, cl, done) ==
    IF ~isRunning
    THEN /\ tasks' = Move(tasks, from, done)
         /\ last' = IF done = "end" THEN "stopReturned" ELSE "step"
         /\ UNCHANGED <<isRunning, changeStream, client>>
    ELSE /\ isRunning' = FALSE
         /\ IF changeStream # "null"
            THEN /\ changeStream' = "closed"
                 /\ tasks' = Move(tasks, from, cs)
                 /\ last' = "step"
                 /\ UNCHANGED client
            ELSE /\ stopClient(from, cl, done)
                 /\ last' = IF client = "null" /\ done = "end" THEN "stopReturned" ELSE "step"
                 /\ UNCHANGED changeStream

\* stop() resumed after `await this.changeStream.close()`; ok: close() did not throw
stopAfterStreamClose(from, cl, done, ok) ==
    /\ tasks[from] > 0
    /\ IF ok
       THEN /\ changeStream' = "null"
            /\ orphanStreams' = IF changeStream = "open"
                                THEN Min(orphanStreams + 1, MaxOrphans)
                                ELSE orphanStreams
            /\ stopClient(from, cl, done)
            /\ last' = IF client = "null" /\ done = "end" THEN "stopReturned" ELSE "step"
       ELSE /\ tasks' = Move(tasks, from, done)
            /\ last' = IF done = "end" THEN "stopReturned" ELSE "step"
            /\ UNCHANGED <<changeStream, orphanStreams, client>>
    /\ UNCHANGED <<isRunning, reconnectAttempts, enabled, mongoUp, intent>>
    /\ UNCHANGED <<eventVars, bulkVars, callVars>>

\* stop() resumed after `await this.client.close()`
stopAfterClientClose(from, done, ok) ==
    /\ tasks[from] > 0
    /\ IF ok
       THEN /\ client' = "null"
            /\ tasks' = Orphaned(Move(tasks, from, done))
       ELSE /\ tasks' = Move(tasks, from, done)
            /\ UNCHANGED client
    /\ last' = IF done = "end" THEN "stopReturned" ELSE "step"
    /\ UNCHANGED <<isRunning, changeStream, reconnectAttempts, enabled, mongoUp,
                   orphanStreams, intent>>
    /\ UNCHANGED <<eventVars, bulkVars, callVars>>

\* start() from its call to `await this.client.connect()` inside connect()
start(from, conn) ==
    IF isRunning \/ ~enabled
    THEN /\ tasks' = Move(tasks, from, "end")
         /\ last' = "step"
         /\ UNCHANGED client
    ELSE /\ client' = "connecting"
         /\ tasks' = Move(Orphaned(tasks), from, conn)
         /\ last' = "step"

\* setupChangeStream(), reached when connect() has resolved
setupChangeStream(from, run) ==
    IF client = "null"
    THEN /\ tasks' = Move(tasks, from, "end")
         /\ last' = IF from \in HStages THEN "reconnectFailed" ELSE "startFailed"
         /\ UNCHANGED <<changeStream, orphanStreams>>
    ELSE /\ changeStream' = "open"
         /\ orphanStreams' = IF changeStream = "open"
                             THEN Min(orphanStreams + 1, MaxOrphans)
                             ELSE orphanStreams
         /\ tasks' = Move(tasks, from, run)
         /\ last' = "step"

\* start() resumed after `await this.connect()`; mine: this.client is still the
\* client this call created.  The connect resolves when MongoDB is up and the
\* client was not closed under it, and rejects otherwise.
startAfterConnect(from, run, mine) ==
    /\ tasks[from] > 0
    /\ IF mongoUp /\ (mine => client = "connecting")
       THEN /\ client' = IF mine THEN "open" ELSE client
            /\ setupChangeStream(from, run)
       ELSE /\ client' = IF mine /\ client = "connecting" THEN "failed" ELSE client
            /\ tasks' = Move(tasks, from, "end")
            /\ last' = IF from \in HStages THEN "reconnectFailed" ELSE "startFailed"
            /\ UNCHANGED <<changeStream, orphanStreams>>
    /\ UNCHANGED <<isRunning, reconnectAttempts, enabled, mongoUp, intent>>
    /\ UNCHANGED <<eventVars, bulkVars, callVars>>

\* start() resumed after `await this.setupChangeStream()`
startAfterSetup(from) ==
    /\ tasks[from] > 0
    /\ isRunning' = TRUE
    /\ reconnectAttempts' = 0
    /\ tasks' = Move(tasks, from, "end")
    /\ last' = "started"
    /\ UNCHANGED <<client, changeStream, enabled, mongoUp, orphanStreams, intent>>
    /\ UNCHANGED <<eventVars, bulkVars, callVars>>

\* handleError where the attempts may reach maxReconnectAttempts and go on
handleErrorOneMore ==
    IF isRunning /\ reconnectAttempts <= maxReconnectAttempts
    THEN /\ reconnectAttempts' = reconnectAttempts + 1
         /\ tasks' = Move(tasks, "call", "hDelay")
         /\ last' = "retry"
         /\ UNCHANGED isRunning
    ELSE /\ isRunning' = FALSE
         /\ last' = "giveUp"
         /\ UNCHANGED <<reconnectAttempts, tasks>>

\* handleError() from the 'error' callback to the reconnect delay (or its return)
handleError ==
    IF isRunning /\ reconnectAttempts < maxReconnectAttempts
    THEN /\ reconnectAttempts' = reconnectAttempts + 1
         /\ tasks' = Move(tasks, "call", "hDelay")
         /\ last' = "retry"
         /\ UNCHANGED isRunning
    ELSE /\ isRunning' = FALSE
         /\ last' = "giveUp"
         /\ UNCHANGED <<reconnectAttempts, tasks>>

\* handleClose(), the 'close' callback
handleClose ==
    IF isRunning
    THEN handleError
    ELSE /\ last' = "step"
         /\ UNCHANGED <<isRunning, reconnectAttempts, tasks>>

(***************************************************************************)
(* The watcher's steps.  The environment's steps take the cap that bounds  *)
(* them as a parameter.                                                    *)
(***************************************************************************)

\* index.ts: `await mongoWatcher.start()`
StartCalled(cap) ==
    /\ Pending(UStages) < cap
    /\ intent' = "start"
    /\ start("call", "uConn")
    /\ UNCHANGED <<isRunning, changeStream, reconnectAttempts, enabled, mongoUp,
                   orphanStreams>>
    /\ UNCHANGED <<eventVars, bulkVars, callVars>>

\* index.ts: `await mongoWatcher.stop()`
StopCalled(cap) ==
    /\ Pending(UStages) < cap
    /\ intent' = IF Pending({"uConn", "uConnOrph"}) > 0 \/ tasks["hDelay"] > 0
                  THEN "cancel"
                  ELSE "stop"
    /\ stop("call", "uCsClose", "uClClose", "end")
    /\ UNCHANGED <<reconnectAttempts, enabled, mongoUp, orphanStreams>>
    /\ UNCHANGED <<eventVars, bulkVars, callVars>>

UserStart == StartCalled(MaxUserCalls)

UserStop == StopCalled(MaxUserCalls)

UserStopStreamClosed == \E ok \in BOOLEAN : stopAfterStreamClose("uCsClose", "uClClose", "end", ok)

UserStopClientClosed == \E ok \in BOOLEAN : stopAfterClientClose("uClClose", "end", ok)

UserStartConnected ==
    \/ startAfterConnect("uConn", "uRun", TRUE)
    \/ startAfterConnect("uConnOrph", "uRun", FALSE)

UserStartRunning == startAfterSetup("uRun")

\* A change stream with the watcher's listeners bound emits 'error'.
ErrorEmitted(cap) ==
    /\ changeStream = "open" \/ orphanStreams > 0
    /\ (isRunning /\ reconnectAttempts < maxReconnectAttempts) => Pending(HStages) < cap
    /\ handleError
    /\ UNCHANGED <<client, changeStream, enabled, mongoUp, orphanStreams, intent>>
    /\ UNCHANGED <<eventVars, bulkVars, callVars>>

\* A change stream with the watcher's listeners bound closes by itself and emits 'close'.
CloseEmitted(cap) ==
    /\ (isRunning /\ reconnectAttempts < maxReconnectAttempts) => Pending(HStages) < cap
    /\ \/ /\ changeStream = "open"
          /\ changeStream' = "closed"
          /\ UNCHANGED orphanStreams
       \/ /\ orphanStreams > 0
          /\ orphanStreams' = orphanStreams - 1
          /\ UNCHANGED changeStream
    /\ handleClose
    /\ UNCHANGED <<client, enabled, mongoUp, intent>>
    /\ UNCHANGED <<eventVars, bulkVars, callVars>>

FeedError == ErrorEmitted(MaxPending)

FeedClose == CloseEmitted(MaxPending)

\* handleError: the reconnect delay is over, `await this.stop()` is called
DelayOver(cap) ==
    /\ tasks["hDelay"] > 0
    /\ Pending(HStages \ {"hDelay"}) < cap
    /\ stop("hDelay", "hCsClose", "hClClose", "hStart")
    /\ UNCHANGED <<reconnectAttempts, enabled, mongoUp, orphanStreams, intent>>
    /\ UNCHANGED <<eventVars, bulkVars, callVars>>

ReconnectDelayOver == DelayOver(MaxActive)

ReconnectStreamClosed == \E ok \in BOOLEAN : stopAfterStreamClose("hCsClose", "hClClose", "hStart", ok)

ReconnectClientClosed == \E ok \in BOOLEAN : stopAfterClientClose("hClClose", "hStart", ok)

\* handleError: `await this.stop()` has returned, `await this.start()` is called
ReconnectStart ==
    /\ tasks["hStart"] > 0
    /\ start("hStart", "hConn")
    /\ UNCHANGED <<isRunning, changeStream, reconnectAttempts, enabled, mongoUp,
                   orphanStreams, intent>>
    /\ UNCHANGED <<eventVars, bulkVars, callVars>>

ReconnectConnected ==
    \/ startAfterConnect("hConn", "hRun", TRUE)
    \/ startAfterConnect("hConnOrph", "hRun", FALSE)

ReconnectRunning == startAfterSetup("hRun")

(***************************************************************************)
(* handleChangeEvent and the reconcile of one document                     *)
(* (processDocumentUpsert, processDocumentDelete).  A call in progress is  *)
(* a record resting at the index or embedding call it awaits:              *)
(*   pdDelete   processDocumentDelete awaits deleteByDocId                 *)
(*   upDelete   processDocumentUpsert awaits deleteByDocId                 *)
(*   embed      processDocumentUpsert awaits embedBatch                    *)
(*   upsert     processDocumentUpsert awaits upsertPoints                  *)
(* A step is the awaited call taking effect (or failing) and the code up   *)
(* to the next await.                                                      *)
(***************************************************************************)
NoEvent == [op |-> "none", key |-> "none", full |-> "none"]

RemoveAt(seq, i) == [k \in 1..(Len(seq) - 1) |-> IF k < i THEN seq[k] ELSE seq[k + 1]]

\* handleChangeEvent where a document without a usable text is left as it is
handleChangeEventIgnoresInvalid(ev) ==
    IF ev.key = "none" THEN "throw"
    ELSE IF ev.op \in {"insert", "update"}
         THEN IF ev.full # "none" /\ ~invalidText(ev.full) THEN "upDelete" ELSE "warn"
         ELSE "pdDelete"

\* handleChangeEvent up to its first await: where the event is routed.
\*   "throw"     documentKey._id throws, the catch logs it
\*   "warn"      insert/update without fullDocument: a warning, nothing else
\*   "pdDelete"  processDocumentDelete (delete event, or text missing/invalid)
\*   "upDelete"  processDocumentUpsert's try block
handleChangeEvent(ev) ==
    IF ev.key = "none" THEN "throw"
    ELSE IF ev.op \in {"insert", "update"}
         THEN IF ev.full # "none"
              THEN IF invalidText(ev.full) THEN "pdDelete" ELSE "upDelete"
              ELSE "warn"
         ELSE "pdDelete"

\* The record of a call that has returned: what it was given, how it ended,
\* the calls it made, the points its document is left with, whether it
\* repeated its predecessor (the same event handled again, each of the two
\* calls running alone and without a failure) together with the points that
\* predecessor had left, and how the call that returned before it had ended.
returned(h, outcome, idx) ==
    LET same == /\ h.solo /\ outcome = "ok"
                /\ prev.solo /\ prev.outcome = "ok"
                /\ prev.ev = h.ev
    IN  [n |-> h.n, ev |-> h.ev, outcome |-> outcome, solo |-> h.solo,
         calls |-> h.calls, pts |-> pointsOf(idx, h.ev.key),
         same |-> same, was |-> IF same THEN prev.pts ELSE {},
         follows |-> prev.outcome]

\* A catch block that stops the watcher
caughtStopsWatcher ==
    /\ isRunning' = FALSE
    /\ UNCHANGED <<client, changeStream, reconnectAttempts, enabled, mongoUp,
                   orphanStreams, tasks, intent, last>>

\* The catch blocks of handleChangeEvent, processDocumentUpsert and
\* processDocumentDelete: logger.error, nothing else.
caught == UNCHANGED lifecycleVars

\* A change stream with the watcher's listeners bound emits 'change'.
ChangeEmitted ==
    /\ changeStream = "open" \/ orphanStreams > 0
    /\ delivered < MaxEvents
    /\ Len(handlers) < MaxInFlight
    /\ \E ev \in ChangeEvents :
        LET route == handleChangeEvent(ev)
            h == [n |-> delivered + 1, ev |-> ev, pc |-> route, base |-> 0,
                  solo |-> handlers = <<>>, calls |-> <<>>]
            others == [k \in 1..Len(handlers) |-> [handlers[k] EXCEPT !.solo = FALSE]]
        IN  /\ delivered' = delivered + 1
            /\ CASE route = "throw" ->
                      /\ caught
                      /\ prev' = returned(h, "failed", index)
                      /\ handlers' = others
                 [] route = "warn" ->
                      /\ UNCHANGED lifecycleVars
                      /\ prev' = returned(h, "ok", index)
                      /\ handlers' = others
                 [] OTHER ->
                      /\ UNCHANGED lifecycleVars
                      /\ handlers' = Append(others, [h EXCEPT !.calls = <<"delete">>])
                      /\ UNCHANGED prev
    /\ UNCHANGED <<index, nextId>>
    /\ UNCHANGED <<bulkVars, callVars>>

\* processDocumentDelete resumed after `await qdrantClient.deleteByDocId(docId)`
DocumentDeleted ==
    \E i \in 1..Len(handlers), ok \in BOOLEAN :
        LET h == handlers[i] IN
        /\ h.pc = "pdDelete"
        /\ index' = IF ok THEN deleteByDocId(index, h.ev.key) ELSE index
        /\ IF ok THEN UNCHANGED lifecycleVars ELSE caught
        /\ prev' = returned(h, IF ok THEN "ok" ELSE "failed", index')
        /\ handlers' = RemoveAt(handlers, i)
        /\ UNCHANGED <<nextId, delivered>>
        /\ UNCHANGED <<bulkVars, callVars>>

\* processDocumentUpsert resumed after its `await qdrantClient.deleteByDocId(docId)`:
\* the text is chunked and, unless there is no chunk, embedBatch is called
UpsertDeleted ==
    \E i \in 1..Len(handlers), ok \in BOOLEAN :
        LET h == handlers[i]
            chunks == chunksOf[h.ev.full]
        IN
        /\ h.pc = "upDelete"
        /\ IF ok
           THEN /\ index' = deleteByDocId(index, h.ev.key)
                /\ nextId' = nextId + Len(chunks)
                /\ UNCHANGED lifecycleVars
                /\ IF Len(chunks) = 0
                   THEN /\ prev' = returned(h, "ok", index')
                        /\ handlers' = RemoveAt(handlers, i)
                   ELSE /\ handlers' = [handlers EXCEPT ![i] =
                                [h EXCEPT !.pc = "embed", !.base = nextId,
                                          !.calls = Append(@, "embed")]]
                        /\ UNCHANGED prev
           ELSE /\ caught
                /\ prev' = returned(h, "failed", index)
                /\ handlers' = RemoveAt(handlers, i)
                /\ UNCHANGED <<index, nextId>>
        /\ UNCHANGED delivered
        /\ UNCHANGED <<bulkVars, callVars>>

\* processDocumentUpsert resumed after `await embeddingProvider.embedBatch(chunkTexts)`:
\* the points are built and upsertPoints is called
Embedded ==
    \E i \in 1..Len(handlers), ok \in BOOLEAN :
        LET h == handlers[i] IN
        /\ h.pc = "embed"
        /\ IF ok
           THEN /\ handlers' = [handlers EXCEPT ![i] =
                        [h EXCEPT !.pc = "upsert", !.calls = Append(@, "upsert")]]
                /\ UNCHANGED lifecycleVars
                /\ UNCHANGED prev
           ELSE /\ caught
                /\ prev' = returned(h, "failed", index)
                /\ handlers' = RemoveAt(handlers, i)
        /\ UNCHANGED <<index, nextId, delivered>>
        /\ UNCHANGED <<bulkVars, callVars>>

\* The same step where a failed upsertPoints has written the points all the same
UpsertedWritesOnFailure ==
    \E i \in 1..Len(handlers), ok \in BOOLEAN :
        LET h == handlers[i] IN
        /\ h.pc = "upsert"
        /\ index' = upsertPoints(index, pointsFor(h.ev.key, h.ev.full, h.base))
        /\ IF ok THEN UNCHANGED lifecycleVars ELSE caught
        /\ prev' = returned(h, IF ok THEN "ok" ELSE "failed", index')
        /\ handlers' = RemoveAt(handlers, i)
        /\ UNCHANGED <<nextId, delivered>>
        /\ UNCHANGED <<bulkVars, callVars>>

\* processDocumentUpsert resumed after `await qdrantClient.upsertPoints(points)`
Upserted ==
    \E i \in 1..Len(handlers), ok \in BOOLEAN :
        LET h == handlers[i] IN
        /\ h.pc = "upsert"
        /\ index' = IF ok
                    THEN upsertPoints(index, pointsFor(h.ev.key, h.ev.full, h.base))
                    ELSE index
        /\ IF ok THEN UNCHANGED lifecycleVars ELSE caught
        /\ prev' = returned(h, IF ok THEN "ok" ELSE "failed", index')
        /\ handlers' = RemoveAt(handlers, i)
        /\ UNCHANGED <<nextId, delivered>>
        /\ UNCHANGED <<bulkVars, callVars>>

(***************************************************************************)
(* POST /sync/mongo: the bulk sync of the source collection into the       *)
(* index.  The request in progress rests at the call it awaits:            *)
(*   connect      mongoClient.connect()                                    *)
(*   ensureGet    ensureCollection: GET /collections/<name>                *)
(*   ensurePut    ensureCollection: PUT /collections/<name>                *)
(*   count        collection.countDocuments(query)                         *)
(*   cursor       the cursor's next document                               *)
(*   embed        processBatch: embeddingProvider.embedBatch               *)
(*   upsert       processBatch: qdrantClient.upsertPoints                  *)
(*   close        mongoClient.close()                                      *)
(* and at "doc" processBatch is about to take the document at position i   *)
(* of the batch.  Requests are served one after the other and leave        *)
(* chunkSize and overlap at their defaults.                                *)
(***************************************************************************)

\* requests made in one behaviour
MaxSyncs == 1
\* the largest batchSize a request asks for
MaxBatchSize == 2

Range(f) == {f[k] : k \in DOMAIN f}

\* What doc[textField] holds in the source collection
SourceValues == {"undefined", "short", "long"}

\* A source document {_id, [textField], embedding}: text is doc[textField],
\* embedding is !!doc.embedding.
SourceDocs(d) == [id : {d}, text : SourceValues, embedding : BOOLEAN]

\* The source collections: no document, d1, or d1 and d2.
Collections ==
    {<<>>} \cup {<<a>> : a \in SourceDocs("d1")}
           \cup {<<a, b>> : a \in SourceDocs("d1"), b \in SourceDocs("d2")}

\* syncRequestSchema: the request bodies
SyncBodies ==
    [dryRun : BOOLEAN, reEmbedIfMissing : BOOLEAN, onlyMissingEmbeddings : BOOLEAN,
     batchSize : 1..MaxBatchSize]

NoStats ==
    [documentsProcessed |-> 0, chunksCreated |-> 0, pointsUpserted |-> 0,
     documentsSkipped |-> 0, errors |-> <<>>, preview |-> <<>>]

SyncIdle ==
    [pc |-> "idle",
     body |-> [dryRun |-> FALSE, reEmbedIfMissing |-> TRUE,
               onlyMissingEmbeddings |-> FALSE, batchSize |-> 1],
     cursor |-> <<>>, batch |-> <<>>, i |-> 0, exhausted |-> FALSE, read |-> 0,
     base |-> 0, before |-> {}]

called(name, docId) == Append(calls, [call |-> name, docId |-> docId])

missingEmbedding(doc) == ~doc.embedding

\* collection.find(query): query is {} or {embedding: {$exists: false}}
find(onlyMissingEmbeddings) ==
    IF onlyMissingEmbeddings THEN SelectSeq(collection, missingEmbedding) ELSE collection

\* What a request leaves alone: the watcher, the configuration and the source.
syncFrame ==
    /\ UNCHANGED lifecycleVars
    /\ UNCHANGED <<handlers, delivered, prev, mongoReadOnly, collection>>
    /\ UNCHANGED callVars

\* The reply is sent and the request is over.  Of a run that completed the
\* history keeps the number of documents its cursor handed over.
send(code, data) ==
    /\ replies' = Append(replies, [code |-> code, body |-> sync.body, data |-> data,
                                   read |-> IF code = 200 THEN sync.read ELSE 0,
                                   before |-> sync.before, after |-> index])
    /\ sync' = SyncIdle
    /\ stats' = NoStats
    /\ calls' = <<>>

\* The route's catch block: the client is closed, the reply is a 500.
syncCatch ==
    /\ send(500, NoStats)
    /\ UNCHANGED <<index, nextId>>

\* The request arrives and goes on to `await mongoClient.connect()` with no
\* read-only check
SyncRequestedUnchecked ==
    /\ sync.pc = "idle"
    /\ Len(replies) < MaxSyncs
    /\ \E body \in SyncBodies :
        /\ sync' = [SyncIdle EXCEPT !.pc = "connect", !.body = body, !.before = index]
        /\ calls' = called("connect", "none")
        /\ UNCHANGED <<stats, replies>>
    /\ UNCHANGED <<index, nextId>>
    /\ syncFrame

\* The request arrives: the read-only check, then `await mongoClient.connect()`.
SyncRequested ==
    /\ sync.pc = "idle"
    /\ Len(replies) < MaxSyncs
    /\ \E body \in SyncBodies :
        IF mongoReadOnly /\ ~body.dryRun
        THEN /\ replies' = Append(replies, [code |-> 403, body |-> body, data |-> NoStats,
                                            read |-> 0,
                                            before |-> index, after |-> index])
             /\ UNCHANGED <<sync, stats, calls>>
        ELSE /\ sync' = [SyncIdle EXCEPT !.pc = "connect", !.body = body, !.before = index]
             /\ calls' = called("connect", "none")
             /\ UNCHANGED <<stats, replies>>
    /\ UNCHANGED <<index, nextId>>
    /\ syncFrame

\* resumed after `await mongoClient.connect()`: ensureCollection unless dry run
SyncConnected ==
    /\ sync.pc = "connect"
    /\ \E ok \in BOOLEAN :
        IF ~ok THEN syncCatch
        ELSE /\ IF ~sync.body.dryRun
                THEN /\ sync' = [sync EXCEPT !.pc = "ensureGet"]
                     /\ calls' = called("ensureCollection", "none")
                ELSE /\ sync' = [sync EXCEPT !.pc = "count"]
                     /\ UNCHANGED calls
             /\ UNCHANGED <<index, nextId, stats, replies>>
    /\ syncFrame

\* ensureCollection resumed after its GET: the collection exists, is missing
\* (404: it is created), or the check failed (ensureCollection returns false
\* and the route throws)
CollectionChecked ==
    /\ sync.pc = "ensureGet"
    /\ \E res \in {"exists", "missing", "error"} :
        CASE res = "exists" ->
                /\ sync' = [sync EXCEPT !.pc = "count"]
                /\ UNCHANGED <<index, nextId, stats, calls, replies>>
          [] res = "missing" ->
                /\ sync' = [sync EXCEPT !.pc = "ensurePut"]
                /\ calls' = called("createCollection", "none")
                /\ UNCHANGED <<index, nextId, stats, replies>>
          [] res = "error" -> syncCatch
    /\ syncFrame

\* ensureCollection resumed after its PUT
CollectionCreated ==
    /\ sync.pc = "ensurePut"
    /\ \E ok \in BOOLEAN :
        IF ok
        THEN /\ sync' = [sync EXCEPT !.pc = "count"]
             /\ UNCHANGED <<index, nextId, stats, calls, replies>>
        ELSE syncCatch
    /\ syncFrame

\* resumed after `await collection.countDocuments(query)`: stats and the cursor
DocumentsCounted ==
    /\ sync.pc = "count"
    /\ \E ok \in BOOLEAN :
        IF ok
        THEN /\ sync' = [sync EXCEPT !.pc = "cursor",
                                     !.cursor = find(sync.body.onlyMissingEmbeddings)]
             /\ stats' = NoStats
             /\ UNCHANGED <<index, nextId, calls, replies>>
        ELSE syncCatch
    /\ syncFrame

\* `for await (const doc of cursor)`: the cursor hands over its next document
\* or reports its end; a full batch, or the rest at the end, goes to processBatch
CursorNext ==
    /\ sync.pc = "cursor"
    /\ \E ok \in BOOLEAN :
        IF ~ok THEN syncCatch
        ELSE /\ IF sync.cursor = <<>>
                THEN sync' = IF sync.batch # <<>>
                             THEN [sync EXCEPT !.pc = "doc", !.i = 1, !.exhausted = TRUE]
                             ELSE [sync EXCEPT !.pc = "close", !.exhausted = TRUE]
                ELSE LET batch == Append(sync.batch, Head(sync.cursor))
                         got == [sync EXCEPT !.cursor = Tail(sync.cursor),
                                             !.batch = batch, !.read = @ + 1]
                     IN  sync' = IF Len(batch) >= sync.body.batchSize
                                 THEN [got EXCEPT !.pc = "doc", !.i = 1]
                                 ELSE got
             /\ UNCHANGED <<index, nextId, stats, calls, replies>>
    /\ syncFrame

\* processBatch's loop moves on: the next document of the batch, or back to
\* the route (its cursor, or mongoClient.close() after the last batch)
nextDocument(s) ==
    IF s.i < Len(s.batch) THEN [s EXCEPT !.pc = "doc", !.i = s.i + 1]
    ELSE [s EXCEPT !.pc = IF s.exhausted THEN "close" ELSE "cursor",
                   !.batch = <<>>, !.i = 0]

\* processBatchRoute without its `if (dryRun)` branch
processBatchRouteAlwaysEmbeds(doc, body) ==
    IF invalidText(doc.text) THEN "skip"
    ELSE IF doc.embedding /\ ~body.reEmbedIfMissing THEN "skip"
    ELSE "embed"

\* processBatch, one document up to its first await: where it goes.
\*   "skip"     no usable text, or embedded already and not to be re-embedded
\*   "preview"  dry run: counted, nothing else
\*   "embed"    embedBatch is called
processBatchRoute(doc, body) ==
    IF invalidText(doc.text) THEN "skip"
    ELSE IF doc.embedding /\ ~body.reEmbedIfMissing THEN "skip"
    ELSE IF body.dryRun THEN "preview"
    ELSE "embed"

\* processBatch takes a document
BatchDocument ==
    /\ sync.pc = "doc"
    /\ LET doc == sync.batch[sync.i]
           route == processBatchRoute(doc, sync.body)
           n == IF route = "skip" THEN 0 ELSE Len(chunksOf[doc.text])
       IN  /\ nextId' = nextId + n
           /\ CASE route = "skip" ->
                     /\ stats' = [stats EXCEPT !.documentsSkipped = @ + 1]
                     /\ sync' = nextDocument(sync)
                     /\ UNCHANGED calls
                [] route = "preview" ->
                     /\ stats' = [stats EXCEPT
                            !.preview = Append(@, [docId |-> doc.id, chunks |-> n,
                                                   hasEmbedding |-> doc.embedding,
                                                   textLength |-> Len(TextOf(doc.text))]),
                            !.documentsProcessed = @ + 1,
                            !.chunksCreated = @ + n]
                     /\ sync' = nextDocument(sync)
                     /\ UNCHANGED calls
                [] route = "embed" ->
                     /\ sync' = [sync EXCEPT !.pc = "embed", !.base = nextId]
                     /\ calls' = called("embedBatch", doc.id)
                     /\ UNCHANGED stats
    /\ UNCHANGED <<index, replies>>
    /\ syncFrame

\* A catch block that gives up the rest of the batch
batchCatchLeavesBatch(doc) ==
    /\ stats' = [stats EXCEPT !.errors = Append(@, doc.id)]
    /\ sync' = [sync EXCEPT !.pc = IF sync.exhausted THEN "close" ELSE "cursor",
                            !.batch = <<>>, !.i = 0]
    /\ UNCHANGED <<index, calls>>

\* A catch block that counts the failed document as processed as well
batchCatchCountsProcessed(doc) ==
    /\ stats' = [stats EXCEPT !.errors = Append(@, doc.id), !.documentsProcessed = @ + 1]
    /\ sync' = nextDocument(sync)
    /\ UNCHANGED <<index, calls>>

\* processBatch's catch block: one entry in errors, on with the next document
batchCatch(doc) ==
    /\ stats' = [stats EXCEPT !.errors = Append(@, doc.id)]
    /\ sync' = nextDocument(sync)
    /\ UNCHANGED <<index, calls>>

\* processBatch resumed after `await embeddingProvider.embedBatch(chunkTexts)`:
\* the points are built and upsertPoints is called, which returns at once
\* when there is no point
BatchEmbedded ==
    /\ sync.pc = "embed"
    /\ \E ok \in BOOLEAN :
        LET doc == sync.batch[sync.i]
            n == Len(chunksOf[doc.text])
        IN  IF ~ok THEN batchCatch(doc)
            ELSE IF n = 0
            THEN /\ stats' = [stats EXCEPT !.documentsProcessed = @ + 1]
                 /\ sync' = nextDocument(sync)
                 /\ UNCHANGED <<index, calls>>
            ELSE /\ sync' = [sync EXCEPT !.pc = "upsert"]
                 /\ calls' = called("upsertPoints", doc.id)
                 /\ UNCHANGED <<index, stats>>
    /\ UNCHANGED <<nextId, replies>>
    /\ syncFrame

\* processBatch resumed after `await qdrantClient.upsertPoints(points)`
BatchUpserted ==
    /\ sync.pc = "upsert"
    /\ \E ok \in BOOLEAN :
        LET doc == sync.batch[sync.i]
            points == pointsFor(doc.id, doc.text, sync.base)
        IN  IF ~ok THEN batchCatch(doc)
            ELSE /\ index' = upsertPoints(index, points)
                 /\ stats' = [stats EXCEPT
                        !.documentsProcessed = @ + 1,
                        !.chunksCreated = @ + Len(chunksOf[doc.text]),
                        !.pointsUpserted = @ + Cardinality(points)]
                 /\ sync' = nextDocument(sync)
                 /\ UNCHANGED calls
    /\ UNCHANGED <<nextId, replies>>
    /\ syncFrame

\* resumed after `await mongoClient.close()`: the reply carries the stats
SyncClosed ==
    /\ sync.pc = "close"
    /\ \E ok \in BOOLEAN :
        IF ok
        THEN /\ send(200, stats)
             /\ UNCHANGED <<index, nextId>>
        ELSE syncCatch
    /\ syncFrame

(***************************************************************************)
(* The HTTP surface (index.ts): the preHandler hook registerAuth() adds,   *)
(* which runs in front of every route handler.  Urls and header values are *)
(* sequences of characters.  The request rests at                          *)
(*   preHandler   the hook is about to run                                 *)
(*   handler      the hook has returned without a reply: the route's       *)
(*                handler is about to run                                  *)
(*   sent         the reply has been sent                                  *)
(***************************************************************************)

\* String.prototype.startsWith
startsWith(str, prefix) ==
    Len(str) >= Len(prefix) /\ SubSeq(str, 1, Len(prefix)) = prefix

\* String.prototype.split(' ')
RECURSIVE split(_)
split(str) ==
    IF \A i \in 1..Len(str) : str[i] # " " THEN <<str>>
    ELSE LET i == CHOOSE k \in 1..Len(str) :
                      str[k] = " " /\ \A j \in 1..(k - 1) : str[j] # " "
         IN  <<SubSeq(str, 1, i - 1)>> \o split(SubSeq(str, i + 1, Len(str)))

\* config.API_KEY, a string of at least one character
API_KEY == <<"k", "e", "y">>

Bearer == <<"B", "e", "a", "r", "e", "r">>

skipAuthPaths == <<<<"/", "h", "e", "a", "l", "t", "h">>,
                  <<"/", "a", "p", "p">>,
                  <<"/", "s", "t", "a", "t", "i", "c", "/">>,
                  <<"/", "f", "a", "v", "i", "c", "o", "n", ".", "i", "c", "o">>>>

\* The urls of the routes registerRoutes() and the route plugins register, the
\* frontend enabled: request.routeOptions.url
urlRoot == <<"/">>

urlHealth == <<"/", "h", "e", "a", "l", "t", "h">>

Routes ==
    {urlRoot, urlHealth,
     <<"/", "a", "p", "i">>,
     <<"/", "a", "p", "p">>,
     <<"/", "s", "t", "a", "t", "i", "c", "/", "*">>,
     <<"/", "e", "m", "b", "e", "d">>,
     <<"/", "u", "p", "s", "e", "r", "t">>,
     <<"/", "q", "u", "e", "r", "y">>,
     <<"/", "d", "e", "l", "e", "t", "e">>,
     <<"/", "d", "e", "l", "e", "t", "e", "/", "h", "e", "a", "l", "t", "h">>,
     <<"/", "s", "y", "n", "c", "/", "m", "o", "n", "g", "o">>,
     <<"/", "s", "y", "n", "c", "/", "m", "o", "n", "g", "o", "/", "s", "t", "a", "t", "u", "s">>}

\* request.headers.authorization: absent, or its value
NoHeader == [set |-> FALSE, value |-> <<>>]

Header(value) == [set |-> TRUE, value |-> value]

Headers ==
    {NoHeader,
     Header(<<"B", "e", "a", "r", "e", "r", " ", "k", "e", "y">>),
     Header(<<"B", "e", "a", "r", "e", "r", " ", "n", "o", "k">>),
     Header(<<"B", "a", "s", "i", "c", " ", "k", "e", "y">>),
     Header(<<"k", "e", "y">>),
     Header(<<"B", "e", "a", "r", "e", "r">>),
     Header(<<"B", "e", "a", "r", "e", "r", " ", " ", "k", "e", "y">>),
     Header(<<"B", "e", "a", "r", "e", "r", " ", "k", "e", "y", " ", "x">>),
     Header(<<"b", "e", "a", "r", "e", "r", " ", "k", "e", "y">>)}

NoRequest ==
    [pc |-> "idle", url |-> <<>>, authorization |-> NoHeader, code |-> 0,
     user |-> FALSE, handled |-> FALSE]

\* The hook registerAuth() adds, by its outcome:
\*   "skip"     the url is one of skipAuthPaths or starts with one
\*   "missing"  401, Missing Authorization header
\*   "invalid"  401, Invalid authorization token
\*   "ok"       request.user is set
authHook(url, authHeader) ==
    IF \E k \in DOMAIN skipAuthPaths :
            url = skipAuthPaths[k] \/ startsWith(url, skipAuthPaths[k])
    THEN "skip"
    ELSE IF ~authHeader.set \/ authHeader.value = <<>> THEN "missing"
    ELSE LET parts == split(authHeader.value)
             type == parts[1]
         IN  IF type # Bearer \/ Len(parts) < 2 THEN "invalid"
             ELSE IF parts[2] # API_KEY THEN "invalid"
             ELSE "ok"

callFrame == UNCHANGED <<lifecycleVars, eventVars, bulkVars>>

\* A request for one of the routes arrives.
RequestReceived ==
    /\ request.pc \in {"idle", "sent"}
    /\ \E url \in Routes, authHeader \in Headers :
          request' = [NoRequest EXCEPT !.pc = "preHandler", !.url = url,
                                       !.authorization = authHeader]
    /\ UNCHANGED <<chunked, chunking, reranked>>
    /\ callFrame

\* The preHandler hook runs.
AuthPreHandler ==
    /\ request.pc = "preHandler"
    /\ LET outcome == authHook(request.url, request.authorization)
       IN  request' =
             CASE outcome = "skip" -> [request EXCEPT !.pc = "handler"]
               [] outcome = "ok" -> [request EXCEPT !.pc = "handler", !.user = TRUE]
               [] OTHER -> [request EXCEPT !.pc = "sent", !.code = 401]
    /\ UNCHANGED <<chunked, chunking, reranked>>
    /\ callFrame

\* The route's handler runs and replies; 200 stands for the reply it chooses
\* (no handler replies 401).
RouteHandler ==
    /\ request.pc = "handler"
    /\ request' = [request EXCEPT !.pc = "sent", !.code = 200, !.handled = TRUE]
    /\ UNCHANGED <<chunked, chunking, reranked>>
    /\ callFrame

(***************************************************************************)
(* textChunker.chunk() called on its own: the texts are made of up to      *)
(* MaxSegments pieces (a word, a run of blanks, a sentence end, a letter), *)
(* the options are small so that such a text takes several windows.        *)
(***************************************************************************)

\* pieces a text is made of
MaxSegments == 4
\* the largest chunkSize (tokens) asked for
MaxChunkSize == 2

Segments ==
    {<<"a", "a", "a", "a", "a">>, <<" ", " ", " ", " ", " ">>,
     <<"a", "a", ".", " ", "a">>, <<"a">>}

RECURSIVE TextsOf(_)
TextsOf(n) ==
    IF n = 0 THEN {<<>>}
    ELSE LET shorter == TextsOf(n - 1)
         IN  shorter \cup {t \o seg : t \in shorter, seg \in Segments}

\* ChunkingOptions
ChunkCalls ==
    [text : TextsOf(MaxSegments), chunkSize : 0..MaxChunkSize, overlap : {0, 50},
     preserveSentences : BOOLEAN, minChunkSize : {0, 3, 6}, done : {FALSE},
     chunks : {<<>>}]

\* chunk(text, options) runs and returns
ChunkCalled ==
    /\ ~chunked.done
    /\ chunked' = [chunked EXCEPT
                      !.done = TRUE,
                      !.chunks = chunk(chunked.text, chunked.chunkSize, chunked.overlap,
                                       chunked.preserveSentences, chunked.minChunkSize)]
    /\ UNCHANGED <<request, chunking, reranked>>
    /\ callFrame

(***************************************************************************)
(* textChunker.chunk() window by window: one step per iteration of its     *)
(* `while (currentIndex < text.length)` loop.  The texts are the small     *)
(* ones and texts of SentenceTextLength characters with one sentence end,  *)
(* long enough for findSentenceBoundary to look around the tentative end;  *)
(* the options include an overlap of 100% and more.                        *)
(***************************************************************************)

\* pieces a small text is made of
MaxLoopSegments == 2
\* the length of the texts with one sentence end
SentenceTextLength == 32

SentenceTexts ==
    {Repeat("a", p) \o <<".", " ">> \o Repeat("a", SentenceTextLength - p - 2) :
        p \in 0..(SentenceTextLength - 2)}

LoopTexts == TextsOf(MaxLoopSegments) \cup SentenceTexts

NoChunking ==
    [text |-> <<>>, chunkSize |-> 0, overlap |-> 0, preserveSentences |-> FALSE,
     minChunkSize |-> 0, pc |-> "idle", currentIndex |-> 0, chunks |-> <<>>,
     windows |-> <<>>]

\* chunk(text, options) about to run
ChunkingCalls ==
    [text : LoopTexts, chunkSize : 0..MaxChunkSize, overlap : {0, 50, 100, 150},
     preserveSentences : BOOLEAN, minChunkSize : {0, 6}, pc : {"call"},
     currentIndex : {0}, chunks : {<<>>}, windows : {<<>>}]

targetChunkChars(c) == tokensToChars(c.chunkSize)

overlapChars(c) == (targetChunkChars(c) * c.overlap) \div 100

\* chunk() from its call to its loop, or to its return for a text shorter
\* than minChunkSize
ChunkEntered ==
    /\ chunking.pc = "call"
    /\ chunking' =
          IF Len(chunking.text) < chunking.minChunkSize
          THEN [chunking EXCEPT
                   !.pc = "done",
                   !.chunks = << [text |-> trim(chunking.text), startIndex |-> 0,
                                  endIndex |-> Len(chunking.text), chunkIndex |-> 0,
                                  tokens |-> estimateTokens(chunking.text)] >>]
          ELSE [chunking EXCEPT !.pc = "loop"]
    /\ UNCHANGED <<request, chunked, reranked>>
    /\ callFrame

\* One iteration of the loop: the window from currentIndex is cut, kept if its
\* trimmed text has minChunkSize characters, and the loop breaks or moves on.
\* windows records, for each iteration, the window's start, its tentative
\* end, the sentence boundary found for it and the end it was given.
WindowTaken ==
    /\ chunking.pc = "loop"
    /\ chunking.currentIndex < Len(chunking.text)
    /\ \E tentative \in {Min(chunking.currentIndex + targetChunkChars(chunking), Len(chunking.text))} :
       \E boundary \in {IF chunking.preserveSentences /\ tentative < Len(chunking.text)
                        THEN findSentenceBoundary(chunking.text, tentative)
                        ELSE tentative} :
       \E endIndex \in {windowEnd(chunking.text, chunking.currentIndex,
                                  targetChunkChars(chunking), chunking.preserveSentences)} :
       \E chunkText \in {trim(slice(chunking.text, chunking.currentIndex, endIndex))} :
        LET currentIndex == chunking.currentIndex
            window == [start |-> currentIndex, tentative |-> tentative,
                       boundary |-> boundary, end |-> endIndex]
            out == IF Len(chunkText) >= chunking.minChunkSize
                   THEN Append(chunking.chunks,
                               [text |-> chunkText, startIndex |-> currentIndex,
                                endIndex |-> endIndex, chunkIndex |-> Len(chunking.chunks),
                                tokens |-> estimateTokens(chunkText)])
                   ELSE chunking.chunks
        IN  chunking' =
              IF endIndex >= Len(chunking.text)
              THEN [chunking EXCEPT !.pc = "done", !.chunks = out,
                                    !.windows = Append(@, window)]
              ELSE [chunking EXCEPT
                       !.currentIndex = nextIndex(currentIndex, endIndex, overlapChars(chunking)),
                       !.chunks = out,
                       !.windows = Append(@, window)]
    /\ UNCHANGED <<request, chunked, reranked>>
    /\ callFrame

\* `while (currentIndex < text.length)` is false: the loop is left
LoopExited ==
    /\ chunking.pc = "loop"
    /\ ~(chunking.currentIndex < Len(chunking.text))
    /\ chunking' = [chunking EXCEPT !.pc = "done"]
    /\ UNCHANGED <<request, chunked, reranked>>
    /\ callFrame

(***************************************************************************)
(* Re-ranking of search results (utils/mmr.ts).  Numbers are fractions     *)
(* n/d with d > 0, compared by cross-multiplication and kept in lowest     *)
(* terms by + and *; the vectors of the model have whole norms, so that    *)
(* Math.sqrt is exact and a cosine similarity is a fraction.               *)
(***************************************************************************)

\* candidates of one search
MaxCandidates == 3
\* the largest topK asked for
MaxTopK == 2

Rat(n, d) == [n |-> n, d |-> d]

Zero == Rat(0, 1)

One == Rat(1, 1)

RECURSIVE GCD(_, _)
GCD(a, b) == IF b = 0 THEN a ELSE GCD(b, a % b)

\* The same number in lowest terms
Reduce(a) ==
    LET g == GCD(Abs(a.n), a.d)
    IN  Rat(a.n \div g, a.d \div g)

RAdd(a, b) == Reduce(Rat(a.n * b.d + b.n * a.d, a.d * b.d))

RNeg(a) == Rat(0 - a.n, a.d)

RMul(a, b) == Reduce(Rat(a.n * b.n, a.d * b.d))

RLess(a, b) == a.n * b.d < b.n * a.d

REq(a, b) == a.n * b.d = b.n * a.d

\* Math.max over a non-empty set of numbers
RMax(S) == CHOOSE a \in S : \A b \in S : ~RLess(a, b)

\* Math.sqrt, of a square
sqrt(n) == CHOOSE r \in 0..n : r * r = n

\* cosineSimilarity throws: 'Vectors must have the same length'
lengthsDiffer(a, b) == Len(a) # Len(b)

\* cosineSimilarity(a, b), a and b of one length
cosineSimilarity(a, b) ==
    LET dotProduct == SumOver([i \in 1..Len(a) |-> a[i] * b[i]], 1..Len(a))
        normA == sqrt(SumOver([i \in 1..Len(a) |-> a[i] * a[i]], 1..Len(a)))
        normB == sqrt(SumOver([i \in 1..Len(b) |-> b[i] * b[i]], 1..Len(b)))
    IN  IF normA = 0 \/ normB = 0 THEN Zero
        ELSE Rat(dotProduct, normA * normB)

\* result.vector: absent, or the array
NoVector == [set |-> FALSE, value |-> <<>>]

Vector(value) == [set |-> TRUE, value |-> value]

\* `result.vector && result.vector.length > 0`
hasVector(result) == result.vector.set /\ Len(result.vector.value) > 0

\* `score || 0`
OrZero(score) == IF score.n = 0 THEN Zero ELSE score

\* {...result, originalScore, mmrScore, mmrRank}
annotate(result, originalScore, score, rank) ==
    [id |-> result.id, score |-> result.score, vector |-> result.vector,
     originalScore |-> originalScore, mmrScore |-> score, mmrRank |-> rank]

\* The branch both functions take when no candidate has a vector, with ranks
\* counted from 0
noVectorsRankedFromZero(results, topK) ==
    [k \in 1..Min(topK, Len(results)) |->
        annotate(results[k], results[k].score, results[k].score, k - 1)]

\* `results.slice(0, topK).map(...)`, topK >= 0: the branch both functions
\* take when no candidate has a vector
noVectors(results, topK) ==
    [k \in 1..Min(topK, Len(results)) |->
        annotate(results[k], results[k].score, results[k].score, k)]

\* The scan for the best candidate where `>=` replaces `>`
bestIndexLatest(scores) ==
    CHOOSE i \in 1..Len(scores) :
        /\ \A j \in 1..Len(scores) : ~RLess(scores[i], scores[j])
        /\ \A j \in (i + 1)..Len(scores) : RLess(scores[j], scores[i])

\* The scan `if (score > bestScore) { bestScore = score; bestIndex = i }` from
\* bestScore = -Infinity: the first index that holds the largest score
bestIndex(scores) ==
    CHOOSE i \in 1..Len(scores) :
        /\ \A j \in 1..Len(scores) : ~RLess(scores[i], scores[j])
        /\ \A j \in 1..(i - 1) : RLess(scores[j], scores[i])

\* applyMMR's diversity score with its sign lost
diversityScoreSeeksSimilar(candidateVector, selected) ==
    IF Len(selected) > 0
    THEN RMax({RNeg(One)} \cup {cosineSimilarity(candidateVector, selected[k].vector.value) :
                                    k \in 1..Len(selected)})
    ELSE Zero

\* applyMMR: diversityScore of a candidate, minus its largest similarity to a
\* selected result
diversityScore(candidateVector, selected) ==
    IF Len(selected) > 0
    THEN RNeg(RMax({RNeg(One)} \cup {cosineSimilarity(candidateVector, selected[k].vector.value) :
                                         k \in 1..Len(selected)}))
    ELSE Zero

\* applyMMR's score where the diversity score is not weighted by 1 - lambda
mmrScoreOfUnweighted(lambda, candidateVector, queryVector, selected) ==
    RAdd(RMul(lambda, cosineSimilarity(queryVector, candidateVector)),
         diversityScore(candidateVector, selected))

\* applyMMR: `lambda * relevanceScore + (1 - lambda) * diversityScore`
mmrScoreOf(lambda, candidateVector, queryVector, selected) ==
    RAdd(RMul(lambda, cosineSimilarity(queryVector, candidateVector)),
         RMul(RAdd(One, RNeg(lambda)), diversityScore(candidateVector, selected)))

\* applyMMR: the selection loop
RECURSIVE mmrLoop(_, _, _, _, _)
mmrLoop(selected, remaining, queryVector, lambda, topK) ==
    IF ~(Len(selected) < topK /\ Len(remaining) > 0) THEN selected
    ELSE LET scores == [i \in 1..Len(remaining) |->
                           mmrScoreOf(lambda, remaining[i].vector.value, queryVector, selected)]
             i == bestIndex(scores)
             selectedCandidate == remaining[i]
         IN  mmrLoop(Append(selected, annotate(selectedCandidate,
                                               OrZero(selectedCandidate.score),
                                               scores[i], Len(selected) + 1)),
                     RemoveAt(remaining, i), queryVector, lambda, topK)

Returned(out) == [threw |-> FALSE, out |-> out]

Threw == [threw |-> TRUE, out |-> <<>>]

\* applyMMR(results, queryVector, {lambda, fetchK}, topK)
applyMMR(results, queryVector, lambda, fetchK, topK) ==
    IF Len(results) = 0 THEN Returned(<<>>)
    ELSE LET candidates == SubSeq(results, 1, Min(fetchK, Len(results)))
             validCandidates == SelectSeq(candidates, hasVector)
         IN  IF Len(validCandidates) = 0 THEN Returned(noVectors(results, topK))
             ELSE IF topK > 0 /\ \E k \in 1..Len(validCandidates) :
                        lengthsDiffer(queryVector, validCandidates[k].vector.value)
             THEN Threw
             ELSE Returned(mmrLoop(<<>>, validCandidates, queryVector, lambda, topK))

\* applyDiversityReranking: the adjusted score of a candidate,
\* `(candidate.score || 0) * (1 - diversityWeight) - diversityPenalty * diversityWeight`
adjustedScore(candidate, selected, diversityWeight) ==
    LET sims == [k \in 1..Len(selected) |->
                    cosineSimilarity(candidate.vector.value, selected[k].vector.value)]
        RECURSIVE totalSimilarity(_)
        totalSimilarity(k) == IF k = 0 THEN Zero ELSE RAdd(totalSimilarity(k - 1), sims[k])
        diversityPenalty == IF Len(selected) > 0
                            THEN RMul(totalSimilarity(Len(selected)), Rat(1, Len(selected)))
                            ELSE Zero
    IN  RAdd(RMul(OrZero(candidate.score), RAdd(One, RNeg(diversityWeight))),
             RNeg(RMul(diversityPenalty, diversityWeight)))

\* applyDiversityReranking: the selection loop
RECURSIVE diversityLoop(_, _, _, _)
diversityLoop(selected, remaining, diversityWeight, topK) ==
    IF ~(Len(selected) < topK /\ Len(remaining) > 0) THEN selected
    ELSE LET scores == [i \in 1..Len(remaining) |->
                           adjustedScore(remaining[i], selected, diversityWeight)]
             i == bestIndex(scores)
             selectedCandidate == remaining[i]
         IN  diversityLoop(Append(selected, annotate(selectedCandidate,
                                                     OrZero(selectedCandidate.score),
                                                     scores[i], Len(selected) + 1)),
                           RemoveAt(remaining, i), diversityWeight, topK)

\* applyDiversityReranking(results, diversityWeight, topK)
applyDiversityReranking(results, diversityWeight, topK) ==
    IF Len(results) = 0 THEN Returned(<<>>)
    ELSE LET validCandidates == SelectSeq(results, hasVector)
         IN  IF Len(validCandidates) = 0 THEN Returned(noVectors(results, topK))
             ELSE LET first == Head(validCandidates)
                      remaining == Tail(validCandidates)
                      selected == <<annotate(first, first.score, first.score, 1)>>
                  IN  IF 1 < topK /\ \E k \in 1..Len(remaining) :
                            lengthsDiffer(remaining[k].vector.value, first.vector.value)
                      THEN Threw
                      ELSE Returned(diversityLoop(selected, remaining, diversityWeight, topK))

\* The search results told apart: a score and a vector (none, [], or one of a
\* few directions in the plane).
CandidateKinds ==
    {[score |-> Rat(9, 10), vector |-> Vector(<<1, 0>>)],
     [score |-> Rat(9, 10), vector |-> Vector(<<2, 0>>)],
     [score |-> Rat(6, 10), vector |-> Vector(<<3, 4>>)],
     [score |-> Rat(0, 10), vector |-> Vector(<<0, 1>>)],
     [score |-> Rat(3, 10), vector |-> Vector(<<0, 0>>)],
     [score |-> Rat(5, 10), vector |-> NoVector],
     [score |-> Rat(4, 10), vector |-> Vector(<<>>)]}

\* QdrantSearchResult[]: the point ids stand for the positions in the list
ResultLists ==
    UNION {[1..n -> CandidateKinds] : n \in 0..MaxCandidates}

withIds(kinds) ==
    [k \in 1..Len(kinds) |-> [id |-> k, score |-> kinds[k].score, vector |-> kinds[k].vector]]

\* The query vectors: two of the plane, one of another dimension
QueryVectors == {<<1, 0>>, <<3, 4>>, <<1>>}

RerankCalls ==
    [fn : {"applyMMR"}, results : {withIds(l) : l \in ResultLists},
     queryVector : QueryVectors, lambda : {Zero, Rat(1, 2), One}, fetchK : {2, 50},
     diversityWeight : {Zero}, topK : 0..MaxTopK, done : {FALSE}, threw : {FALSE},
     out : {<<>>}]
    \cup
    [fn : {"applyDiversityReranking"}, results : {withIds(l) : l \in ResultLists},
     queryVector : {<<>>}, lambda : {Zero}, fetchK : {0},
     diversityWeight : {Rat(3, 10)}, topK : 0..MaxTopK, done : {FALSE}, threw : {FALSE},
     out : {<<>>}]

\* applyMMR(results, queryVector, {lambda, fetchK}, topK) runs
MMRApplied ==
    /\ reranked.fn = "applyMMR"
    /\ ~reranked.done
    /\ LET res == applyMMR(reranked.results, reranked.queryVector, reranked.lambda,
                           reranked.fetchK, reranked.topK)
       IN  reranked' = [reranked EXCEPT !.done = TRUE, !.threw = res.threw, !.out = res.out]
    /\ UNCHANGED <<request, chunked, chunking>>
    /\ callFrame

\* applyDiversityReranking(results, diversityWeight, topK) runs
DiversityApplied ==
    /\ reranked.fn = "applyDiversityReranking"
    /\ ~reranked.done
    /\ LET res == applyDiversityReranking(reranked.results, reranked.diversityWeight,
                                          reranked.topK)
       IN  reranked' = [reranked EXCEPT !.done = TRUE, !.threw = res.threw, !.out = res.out]
    /\ UNCHANGED <<request, chunked, chunking>>
    /\ callFrame

\* MongoDB becomes unreachable, or reachable again.
MongoFlips ==
    /\ mongoUp' = ~mongoUp
    /\ UNCHANGED <<isRunning, client, changeStream, reconnectAttempts, enabled,
                   orphanStreams, tasks, intent, last>>
    /\ UNCHANGED <<eventVars, bulkVars, callVars>>

\* getStatus(), the health-check surface
getStatus ==
    [isRunning |-> isRunning,
     reconnectAttempts |-> reconnectAttempts,
     maxReconnectAttempts |-> maxReconnectAttempts,
     connected |-> client # "null",
     hasChangeStream |-> changeStream # "null"]

InitWatcher ==
    /\ isRunning = FALSE
    /\ client = "null"
    /\ changeStream = "null"
    /\ reconnectAttempts = 0
    /\ enabled \in BOOLEAN
    /\ mongoUp \in BOOLEAN
    /\ orphanStreams = 0
    /\ tasks = [s \in Stages |-> 0]
    /\ intent = "none"
    /\ last = "none"

Lifecycle ==
    \/ UserStart
    \/ UserStop
    \/ UserStopStreamClosed
    \/ UserStopClientClosed
    \/ UserStartConnected
    \/ UserStartRunning
    \/ FeedError
    \/ FeedClose
    \/ ReconnectDelayOver
    \/ ReconnectStreamClosed
    \/ ReconnectClientClosed
    \/ ReconnectStart
    \/ ReconnectConnected
    \/ ReconnectRunning
    \/ MongoFlips

\* The points the collection holds when the service starts: left by an earlier
\* run, under ids handed out then.
EarlierPoints ==
    {[id |-> 0 - 1, docId |-> "d1", src |-> "short", chunkIndex |-> 0],
     [id |-> 0, docId |-> "d2", src |-> "short", chunkIndex |-> 0]}

InitEvents ==
    /\ index = EarlierPoints
    /\ nextId = 1
    /\ handlers = <<>>
    /\ delivered = 0
    /\ prev = [n |-> 0, ev |-> NoEvent, outcome |-> "none", solo |-> FALSE,
               calls |-> <<>>, pts |-> {}, same |-> FALSE, was |-> {},
               follows |-> "none"]

\* No bulk sync: the watcher runs where the deployment is not read-only
\* (index.ts).
InitSync ==
    /\ mongoReadOnly = FALSE
    /\ collection = <<>>
    /\ sync = SyncIdle
    /\ stats = NoStats
    /\ calls = <<>>
    /\ replies = <<>>

\* No request and no call yet
NoChunkCall ==
    [text |-> <<>>, chunkSize |-> 0, overlap |-> 0, preserveSentences |-> FALSE,
     minChunkSize |-> 0, done |-> FALSE, chunks |-> <<>>]

NoRerankCall ==
    [fn |-> "none", results |-> <<>>, queryVector |-> <<>>, lambda |-> Zero, fetchK |-> 0,
     diversityWeight |-> Zero, topK |-> 0, done |-> FALSE, threw |-> FALSE, out |-> <<>>]

InitCalls ==
    /\ request = NoRequest
    /\ chunked = NoChunkCall
    /\ chunking = NoChunking
    /\ reranked = NoRerankCall

Init == InitWatcher /\ InitEvents /\ InitSync /\ InitCalls

Next == Lifecycle

Spec == Init /\ [][Next]_vars

(***************************************************************************)
(* The reconnect budget run down: the service starts the watcher once      *)
(* (index.ts) and a flapping feed delivers errors faster than the          *)
(* reconnect delay.                                                        *)
(***************************************************************************)
BootStart == intent = "none" /\ StartCalled(1)

FloodError == ErrorEmitted(MaxFlood)

FloodClose == CloseEmitted(MaxFlood)

FloodDelayOver == DelayOver(1)

NextBudget ==
    \/ BootStart
    \/ UserStartConnected
    \/ UserStartRunning
    \/ FloodError
    \/ FloodClose
    \/ FloodDelayOver
    \/ ReconnectStreamClosed
    \/ ReconnectClientClosed
    \/ ReconnectStart
    \/ ReconnectConnected
    \/ ReconnectRunning
    \/ MongoFlips

SpecBudget == Init /\ [][NextBudget]_vars

(***************************************************************************)
(* The watcher at work: started once, stopped by the owner, its feed       *)
(* delivering change events.                                               *)
(***************************************************************************)
EventsStop == StopCalled(1)

NextEvents ==
    \/ BootStart
    \/ UserStartConnected
    \/ UserStartRunning
    \/ EventsStop
    \/ UserStopStreamClosed
    \/ UserStopClientClosed
    \/ ChangeEmitted
    \/ DocumentDeleted
    \/ UpsertDeleted
    \/ Embedded
    \/ Upserted

SpecEvents == Init /\ [][NextEvents]_vars

(***************************************************************************)
(* The bulk sync at work: requests against a source collection that does   *)
(* not change, the watcher disabled.                                       *)
(***************************************************************************)
InitBulk ==
    /\ InitWatcher
    /\ ~enabled
    /\ mongoUp
    /\ InitEvents
    /\ mongoReadOnly \in BOOLEAN
    /\ collection \in Collections
    /\ sync = SyncIdle
    /\ stats = NoStats
    /\ calls = <<>>
    /\ replies = <<>>
    /\ InitCalls

NextBulk ==
    \/ SyncRequested
    \/ SyncConnected
    \/ CollectionChecked
    \/ CollectionCreated
    \/ DocumentsCounted
    \/ CursorNext
    \/ BatchDocument
    \/ BatchEmbedded
    \/ BatchUpserted
    \/ SyncClosed

SpecBulk == InitBulk /\ [][NextBulk]_vars

(***************************************************************************)
(* The HTTP surface at work: requests arrive one after the other, the      *)
(* watcher disabled.                                                       *)
(***************************************************************************)
InitIdle ==
    /\ InitWatcher
    /\ ~enabled
    /\ mongoUp
    /\ InitEvents
    /\ InitSync

InitAuth ==
    /\ InitIdle
    /\ InitCalls

NextAuth ==
    \/ RequestReceived
    \/ AuthPreHandler
    \/ RouteHandler

SpecAuth == InitAuth /\ [][NextAuth]_vars

(***************************************************************************)
(* chunk() applied to each text under each choice of options.              *)
(***************************************************************************)
InitChunk ==
    /\ InitIdle
    /\ request = NoRequest
    /\ chunked \in ChunkCalls
    /\ chunking = NoChunking
    /\ reranked = NoRerankCall

NextChunk == ChunkCalled

SpecChunk == InitChunk /\ [][NextChunk]_vars

(***************************************************************************)
(* chunk() run window by window on each text under each choice of options. *)
(* The call is synchronous code: once entered, each step of it is taken,   *)
(* which is the fairness of SpecChunkLoopLive.                             *)
(***************************************************************************)
InitChunkLoop ==
    /\ InitIdle
    /\ request = NoRequest
    /\ chunked = NoChunkCall
    /\ chunking \in ChunkingCalls
    /\ reranked = NoRerankCall

NextChunkLoop ==
    \/ ChunkEntered
    \/ WindowTaken
    \/ LoopExited

SpecChunkLoop == InitChunkLoop /\ [][NextChunkLoop]_vars

SpecChunkLoopLive == SpecChunkLoop /\ WF_vars(NextChunkLoop)

(***************************************************************************)
(* applyMMR and applyDiversityReranking applied to each list of results.   *)
(***************************************************************************)
InitRerank ==
    /\ InitIdle
    /\ request = NoRequest
    /\ chunked = NoChunkCall
    /\ chunking = NoChunking
    /\ reranked \in RerankCalls

NextRerank ==
    \/ MMRApplied
    \/ DiversityApplied

SpecRerank == InitRerank /\ [][NextRerank]_vars

TypeOK ==
    /\ isRunning \in BOOLEAN
    /\ client \in {"null", "connecting", "open", "failed", "closed"}
    /\ changeStream \in {"null", "open", "closed"}
    /\ reconnectAttempts \in 0..maxReconnectAttempts
    /\ orphanStreams \in 0..MaxOrphans
    /\ \A s \in Stages : tasks[s] \in 0..(MaxPending + MaxFlood + MaxUserCalls)

(***************************************************************************)
(* Properties                                                              *)
(***************************************************************************)

\* What the points of a set carry, their ids left out.
Contents(ps) == {payload(p) : p \in ps}

InsertOrUpdate(ev) == ev.op \in {"insert", "update"} /\ ev.key # "none"

C2_OneHandlerAtATime == Len(handlers) <= 1

\* C3: reconciling a document whose text field is missing, empty or not a
\* string makes one call, the delete of the document's points, and no
\* embedding or upsert call; the delete accepted, the document has no point.
C3_InvalidTextDeletesOnly ==
    /\ \A k \in 1..Len(handlers) :
          (InsertOrUpdate(handlers[k].ev)
              /\ handlers[k].ev.full \in {"undefined", "empty", "number"})
          => (handlers[k].pc = "pdDelete" /\ handlers[k].calls = <<"delete">>)
    /\ (InsertOrUpdate(prev.ev) /\ prev.ev.full \in {"undefined", "empty", "number"})
          => /\ prev.calls = <<"delete">>
             /\ prev.outcome = "ok" => prev.pts = {}

C3_Witness ==
    /\ InsertOrUpdate(prev.ev)
    /\ prev.ev.full = "number"
    /\ prev.outcome = "ok"
    /\ prev.calls = <<"delete">>
    /\ pointsOf(index, prev.ev.key) = {}
    /\ pointsOf(EarlierPoints, prev.ev.key) # {}

\* C4: reconnection survives failed attempts: a reconnect attempt that fails
\* with attempts left (reconnectAttempts < maxReconnectAttempts) and the owner
\* not having stopped the watcher is followed by another attempt, so that the
\* watcher ends in Watching once an attempt succeeds: after such a failure a
\* reconnect is still in progress.
C4_ReconnectSurvivesFailedAttempt ==
    (/\ last = "reconnectFailed"
     /\ intent = "start"
     /\ reconnectAttempts < maxReconnectAttempts)
        => Pending(HStages) > 0

\* C5: once a stop() of the owner has returned, nothing else being in
\* progress, the change stream and the Mongo client are closed and cleared
\* and isRunning is false.
C5_StopClosesAndClears ==
    (last = "stopReturned" /\ Quiescent) =>
        (changeStream = "null" /\ client = "null" /\ ~isRunning)

\* C6: reconnectAttempts never exceeds maxReconnectAttempts, and a feed error
\* that arrives when the attempts are used up starts no reconnect, leaves the
\* attempts as they are and leaves the watcher stopped (isRunning false).
C6_ReconnectionBounded ==
    /\ [](reconnectAttempts <= maxReconnectAttempts)
    /\ [][(last' = "giveUp" /\ reconnectAttempts = maxReconnectAttempts)
            => /\ ~isRunning'
               /\ UNCHANGED <<tasks, reconnectAttempts>>]_vars

C6_Witness ==
    /\ last = "giveUp"
    /\ reconnectAttempts = maxReconnectAttempts
    /\ ~isRunning

\* C7: a failure while handling a change event (the embedding or an index
\* call fails, or the event is malformed) leaves isRunning, the client, the
\* change stream and reconnectAttempts as they are and starts no reconnect.
C7_HandlerFailureLeavesWatcher ==
    [][(prev' # prev /\ prev'.outcome = "failed")
        => UNCHANGED <<isRunning, client, changeStream, reconnectAttempts, tasks>>]_vars

\* A later event handled, from its arrival to its upsert, after a failure.
C7_Witness ==
    /\ prev.follows = "failed"
    /\ prev.outcome = "ok"
    /\ prev.solo
    /\ prev.calls = <<"delete", "embed", "upsert">>
    /\ isRunning
    /\ changeStream = "open"

\* C8: an insert or update event without a fullDocument is treated as if the
\* document had no text: the document's points are deleted and none is
\* inserted.
C8_NoSnapshotDeletes ==
    (InsertOrUpdate(prev.ev) /\ prev.ev.full = "none" /\ prev.outcome = "ok")
        => (prev.calls = <<"delete">> /\ prev.pts = {})

\* The documents of the source a request processes (neither filtered out by
\* its query nor skipped), by position.
Processed(body) ==
    {k \in 1..Len(collection) :
        /\ body.onlyMissingEmbeddings => ~collection[k].embedding
        /\ ~invalidText(collection[k].text)
        /\ collection[k].embedding => body.reEmbedIfMissing}

ChunkCount(body) ==
    SumOver([k \in Processed(body) |-> Len(chunksOf[collection[k].text])], Processed(body))

CleanRun(r) == r.code = 200 /\ ~r.body.dryRun /\ r.data.errors = <<>>

\* C9: bulk sync replaces by docId: a non-dry run that completes without an
\* error leaves none of the points a processed document had before it, and a
\* second such run over the unchanged source leaves each document with as
\* many points, carrying the same payloads, as the first.
C9_ReplaceByDocId ==
    /\ \A k \in 1..Len(replies) :
          CleanRun(replies[k]) =>
              \A j \in Processed(replies[k].body) :
                  pointsOf(replies[k].after, collection[j].id) \cap replies[k].before = {}
    /\ \A k \in 1..(Len(replies) - 1) :
          (CleanRun(replies[k]) /\ CleanRun(replies[k + 1])
              /\ replies[k].body = replies[k + 1].body)
          => \A d \in DocIds :
                /\ Contents(pointsOf(replies[k + 1].after, d))
                      = Contents(pointsOf(replies[k].after, d))
                /\ Cardinality(pointsOf(replies[k + 1].after, d))
                      = Cardinality(pointsOf(replies[k].after, d))

\* C10: a dry-run bulk sync is a pure preview: it calls neither the embedding
\* provider nor the index (no create, upsert or delete), the index is left as
\* it was, and its reply reports the documents it would process and their
\* chunks, with pointsUpserted 0.
C10_DryRunIsPurePreview ==
    /\ (sync.pc # "idle" /\ sync.body.dryRun) =>
          /\ \A c \in Range(calls) : c.call = "connect"
          /\ index = sync.before
          /\ stats.pointsUpserted = 0
    /\ \A k \in 1..Len(replies) :
          replies[k].body.dryRun =>
              /\ replies[k].after = replies[k].before
              /\ replies[k].code = 200 =>
                    /\ replies[k].data.pointsUpserted = 0
                    /\ replies[k].data.documentsProcessed
                          = Cardinality(Processed(replies[k].body))
                    /\ replies[k].data.chunksCreated = ChunkCount(replies[k].body)

C10_Witness ==
    /\ replies # <<>>
    /\ replies[1].body.dryRun
    /\ replies[1].code = 200
    /\ replies[1].data.documentsProcessed = 2
    /\ replies[1].data.chunksCreated > 2
    /\ replies[1].after = EarlierPoints

\* C11: in read-only mode (features.mongoReadOnly) no request with dryRun =
\* false gets past the check: none is ever in progress, so that every call
\* made to the source, the embedder or the index is a dry run's; its reply is
\* a 403 and the index is as it was.  A request with dryRun = true is not
\* answered 403.
C11_ReadOnlyRejectsWrites ==
    mongoReadOnly =>
        /\ sync.pc # "idle" => sync.body.dryRun
        /\ calls # <<>> => (sync.pc # "idle" /\ sync.body.dryRun)
        /\ \A k \in 1..Len(replies) :
              IF replies[k].body.dryRun
              THEN replies[k].code # 403
              ELSE /\ replies[k].code = 403
                   /\ replies[k].after = replies[k].before
                   /\ replies[k].data = NoStats

C11_Witness ==
    /\ mongoReadOnly
    /\ collection # <<>>
    /\ replies # <<>>
    /\ ~replies[1].body.dryRun
    /\ replies[1].code = 403
    /\ calls = <<>>
    /\ index = EarlierPoints

\* The documents of the request in progress that processBatch is done with.
Finished(s) ==
    CASE s.pc \in {"doc", "embed", "upsert"} -> s.read - Len(s.batch) + s.i - 1
      [] s.pc = "cursor" -> s.read - Len(s.batch)
      [] s.pc = "close" -> s.read
      [] OTHER -> 0

NoRepeat(seq) == \A a, b \in 1..Len(seq) : seq[a] = seq[b] => a = b

\* C12: in a bulk sync a document that fails (its embedBatch or upsertPoints
\* call is rejected) gets one entry in errors and the documents after it are
\* processed all the same: at every moment of a run each document processBatch
\* is done with is counted once, as processed, skipped or failed, and a
\* completed run has accounted for every document its cursor handed over.  No
\* point is removed: the index holds everything it held when the run began,
\* and pointsUpserted is the number of points added since, whatever failed.
C12_FailureIsolated ==
    /\ sync.pc \notin {"idle", "connect", "ensureGet", "ensurePut", "count"} =>
          /\ stats.documentsProcessed + stats.documentsSkipped + Len(stats.errors)
                = Finished(sync)
          /\ NoRepeat(stats.errors)
          /\ sync.before \subseteq index
          /\ stats.pointsUpserted = Cardinality(index \ sync.before)
    /\ \A k \in 1..Len(replies) :
          /\ replies[k].before \subseteq replies[k].after
          /\ replies[k].code = 200 =>
                /\ replies[k].data.documentsProcessed + replies[k].data.documentsSkipped
                      + Len(replies[k].data.errors) = replies[k].read
                /\ NoRepeat(replies[k].data.errors)
                /\ replies[k].data.pointsUpserted
                      = Cardinality(replies[k].after \ replies[k].before)

\* The first document fails, the second is processed and its points are in
\* the index.
C12_Witness ==
    /\ replies # <<>>
    /\ replies[1].code = 200
    /\ replies[1].data.errors = <<"d1">>
    /\ replies[1].data.documentsProcessed = 1
    /\ replies[1].data.pointsUpserted > 0
    /\ pointsOf(replies[1].after, "d2") \ replies[1].before # {}

ValidBearer(authHeader) == authHeader = Header(Bearer \o <<" ">> \o API_KEY)

\* C13: every route except `/` and `/health` needs a valid `Authorization:
\* Bearer <API_KEY>` header: a request without the header or with a wrong
\* token is answered 401 and its handler is not run; `/` and `/health` are
\* served without any Authorization header.
C13_AuthExceptRootAndHealth ==
    request.pc = "sent" =>
        IF request.url \in {urlRoot, urlHealth}
        THEN ~request.authorization.set => (request.handled /\ request.code # 401)
        ELSE ~ValidBearer(request.authorization) =>
                (request.code = 401 /\ ~request.handled)

\* The longest stretch of the text no chunk's span covers: before the first
\* chunk, between a chunk and the next, after the last.
UncoveredGaps(c) ==
    LET cs == c.chunks
        n == Len(c.text)
    IN  IF cs = <<>> THEN {n}
        ELSE {cs[1].startIndex, n - cs[Len(cs)].endIndex}
                \cup {cs[k + 1].startIndex - cs[k].endIndex : k \in 1..(Len(cs) - 1)}

\* C14: the spans of the chunks chunk() returns cover [0, len(text)) from
\* left to right with no uncovered gap longer than minChunkSize characters,
\* at the start, between consecutive chunks or at the end.
C14_SpansCoverText ==
    chunked.done =>
        /\ \A k \in 1..(Len(chunked.chunks) - 1) :
              chunked.chunks[k].startIndex <= chunked.chunks[k + 1].startIndex
        /\ \A g \in UncoveredGaps(chunked) : g <= chunked.minChunkSize

\* C15: chunk() on a text with fewer than minChunkSize characters returns
\* exactly one chunk: its text is the trimmed input, its chunkIndex 0, its
\* startIndex 0 and its endIndex len(text).
C15_ShortTextOneChunk ==
    (chunked.done /\ Len(chunked.text) < chunked.minChunkSize) =>
        /\ Len(chunked.chunks) = 1
        /\ chunked.chunks[1].text = trim(chunked.text)
        /\ chunked.chunks[1].chunkIndex = 0
        /\ chunked.chunks[1].startIndex = 0
        /\ chunked.chunks[1].endIndex = Len(chunked.text)

\* A short text that trimming changes.
C15_Witness ==
    /\ chunked.done
    /\ Len(chunked.text) < chunked.minChunkSize
    /\ Len(chunked.text) > 0
    /\ Len(chunked.chunks) = 1
    /\ chunked.chunks[1].text # chunked.text

\* C16: every chunk chunk() returns, for any text (the empty string and
\* blank texts included) and any options, has
\* 0 <= startIndex < endIndex <= len(text).
C16_SpanWithinText ==
    chunked.done =>
        \A k \in 1..Len(chunked.chunks) :
            /\ 0 <= chunked.chunks[k].startIndex
            /\ chunked.chunks[k].startIndex < chunked.chunks[k].endIndex
            /\ chunked.chunks[k].endIndex <= Len(chunked.text)

\* C17: the chunkIndex values of the chunks of one chunk() call are
\* 0, 1, ..., n-1 in output order, also when windows were dropped for being
\* shorter than minChunkSize.
C17_ChunkIndexInOrder ==
    chunked.done =>
        \A k \in 1..Len(chunked.chunks) : chunked.chunks[k].chunkIndex = k - 1

\* A window between two chunks was dropped, and one before the first.
C17_Witness ==
    /\ chunked.done
    /\ chunked.overlap = 0
    /\ Len(chunked.chunks) >= 2
    /\ chunked.chunks[1].startIndex > 0
    /\ \E k \in 1..(Len(chunked.chunks) - 1) :
          chunked.chunks[k + 1].startIndex > chunked.chunks[k].endIndex

\* The candidates applyMMR works on: those with a vector among the first fetchK
ValidCandidates(c) ==
    SelectSeq(SubSeq(c.results, 1, Min(c.fetchK, Len(c.results))), hasVector)

Relevance(c, r) == cosineSimilarity(c.queryVector, r.vector.value)

\* a comes before b in the order of relevance, ties to the earlier of the input
MoreRelevant(c, a, b) ==
    \/ RLess(Relevance(c, b), Relevance(c, a))
    \/ REq(Relevance(c, a), Relevance(c, b)) /\ a.id < b.id

Ids(seq) == {seq[k].id : k \in 1..Len(seq)}

MMRReturned(c) ==
    /\ c.done
    /\ c.fn = "applyMMR"
    /\ ~c.threw
    /\ ValidCandidates(c) # <<>>

\* C18: applyMMR with lambda = 1 returns the candidates that have a vector
\* (within fetchK) in non-increasing order of cosine similarity to the query
\* vector, cut to topK, ties going to the earlier candidate of the input.
C18_LambdaOneIsRelevanceOrder ==
    (MMRReturned(reranked) /\ REq(reranked.lambda, One)) =>
        LET out == reranked.out
            valid == ValidCandidates(reranked)
        IN  /\ Len(out) = Min(reranked.topK, Len(valid))
            /\ \A k \in 1..Len(out) :
                  \E j \in 1..Len(valid) :
                      valid[j].id = out[k].id /\ valid[j].vector = out[k].vector
            /\ \A k \in 1..(Len(out) - 1) : MoreRelevant(reranked, out[k], out[k + 1])
            /\ \A j \in 1..Len(valid) :
                  (valid[j].id \notin Ids(out) /\ out # <<>>)
                      => MoreRelevant(reranked, out[Len(out)], valid[j])

\* The order differs from the input's, two results tie, one candidate is cut.
C18_Witness ==
    /\ MMRReturned(reranked)
    /\ REq(reranked.lambda, One)
    /\ Len(ValidCandidates(reranked)) = 3
    /\ Len(reranked.out) = 2
    /\ reranked.out[1].id = 2
    /\ reranked.out[2].id = 3
    /\ REq(Relevance(reranked, reranked.out[1]), Relevance(reranked, reranked.out[2]))
    /\ ~REq(Relevance(reranked, reranked.results[1]), Relevance(reranked, reranked.out[1]))

\* What is selected before the k-th result, and what is left to choose from
SelectedBefore(c, k) == SubSeq(c.out, 1, k - 1)

RemainingAt(c, k) ==
    {ValidCandidates(c)[j] : j \in {i \in 1..Len(ValidCandidates(c)) :
                                      ValidCandidates(c)[i].id \notin Ids(SelectedBefore(c, k))}}

VectorsOf(seq) == {seq[k].vector.value : k \in 1..Len(seq)}

\* The largest cosine similarity of a vector to the selected results
MaxSimilarity(v, selected) ==
    RMax({cosineSimilarity(v, selected[k].vector.value) : k \in 1..Len(selected)})

\* C19, as stated: with lambda = 0 applyMMR never selects a candidate whose
\* vector is identical to that of an already selected result while some
\* remaining candidate has a vector different from every selected one.
C19_NoIdenticalWhileDifferentLeft ==
    (MMRReturned(reranked) /\ REq(reranked.lambda, Zero)) =>
        \A k \in 2..Len(reranked.out) :
            reranked.out[k].vector.value \in VectorsOf(SelectedBefore(reranked, k))
                => \A r \in RemainingAt(reranked, k) :
                      r.vector.value \in VectorsOf(SelectedBefore(reranked, k))

\* C19, amended: with lambda = 0 applyMMR never selects a candidate whose
\* vector is identical to that of an already selected result while some
\* remaining candidate is less similar to the selected results (has a smaller
\* largest cosine similarity to them).  When the repeated vector is not the
\* zero vector every remaining candidate then has cosine similarity 1 to a
\* selected result: it is a selected vector or a positive multiple of one.
C19_NoIdenticalWhileLessSimilarLeft ==
    (MMRReturned(reranked) /\ REq(reranked.lambda, Zero)) =>
        \A k \in 2..Len(reranked.out) :
            LET selected == SelectedBefore(reranked, k)
                v == reranked.out[k].vector.value
            IN  v \in VectorsOf(selected) =>
                    \A r \in RemainingAt(reranked, k) :
                        /\ ~RLess(MaxSimilarity(r.vector.value, selected),
                                  MaxSimilarity(v, selected))
                        /\ (\E i \in 1..Len(v) : v[i] # 0)
                              => REq(MaxSimilarity(r.vector.value, selected), One)

\* The second candidate repeats the first one's vector and is passed over for
\* the third.
C19_Witness ==
    /\ MMRReturned(reranked)
    /\ REq(reranked.lambda, Zero)
    /\ Len(reranked.results) = 3
    /\ reranked.results[2].vector = reranked.results[1].vector
    /\ reranked.results[3].vector # reranked.results[1].vector
    /\ Len(reranked.out) = 2
    /\ reranked.out[1].id = 1
    /\ reranked.out[2].id = 3

\* C20: when no candidate carries a non-empty vector, applyMMR and
\* applyDiversityReranking raise no error and return the first topK results
\* of the input, in input order, each with mmrRank = its position from 1 and
\* originalScore = mmrScore = score.
C20_NoVectorsFirstTopK ==
    (reranked.done /\ \A k \in 1..Len(reranked.results) : ~hasVector(reranked.results[k])) =>
        /\ ~reranked.threw
        /\ Len(reranked.out) = Min(reranked.topK, Len(reranked.results))
        /\ \A k \in 1..Len(reranked.out) :
              /\ reranked.out[k].id = reranked.results[k].id
              /\ reranked.out[k].score = reranked.results[k].score
              /\ reranked.out[k].vector = reranked.results[k].vector
              /\ reranked.out[k].mmrRank = k
              /\ reranked.out[k].originalScore = reranked.results[k].score
              /\ reranked.out[k].mmrScore = reranked.results[k].score

\* Three results without a vector, of which applyMMR looks at two (fetchK)
\* and returns two (topK), the query vector of another dimension.
C20_Witness ==
    /\ reranked.done
    /\ reranked.fn = "applyMMR"
    /\ Len(reranked.results) = 3
    /\ \A k \in 1..3 : ~hasVector(reranked.results[k])
    /\ reranked.results[1].vector # reranked.results[2].vector
    /\ reranked.queryVector = <<1>>
    /\ reranked.fetchK = 2
    /\ reranked.topK = 2
    /\ Len(reranked.out) = 2
    /\ reranked.out[2].mmrRank = 2

\* C21: cancellation wins over a pending start or reconnect: after a stop()
\* called while a start() is still connecting, or while handleError is waiting
\* out the reconnect delay, and no start() called by the owner since, the
\* watcher is Stopped once every pending operation has finished: isRunning is
\* false and neither the change stream nor the client is open.
C21_CancellationWins ==
    (intent = "cancel" /\ Quiescent) =>
        /\ ~isRunning
        /\ changeStream # "open"
        /\ client \notin {"connecting", "open"}

\* C23: in every reachable state of the watcher, isRunning = true implies that
\* both the Mongo client and the change stream are non-null and open, also
\* where two handleError runs (each doing stop() then start()) overlap.
C23_RunningHasOpenStream ==
    isRunning => (client = "open" /\ changeStream = "open")

\* C22: stale chunks never survive a content change: of two insert/update
\* events on the same docId delivered one after the other, each with a text
\* to embed (the two texts different, so that a point tells its snapshot) and
\* neither handler meeting a failure, once both handlers have finished the
\* index holds for that docId only points produced from the later snapshot,
\* however the handlers' delete, embed and upsert steps interleave.  Stated
\* on the step in which the second of the two handlers returns.
C22_NoStaleChunks ==
    [][(/\ delivered = 2
        /\ Len(handlers) = 1
        /\ handlers' = <<>>
        /\ prev.n # 0
        /\ prev.outcome = "ok"
        /\ prev'.outcome = "ok"
        /\ handleChangeEvent(prev.ev) = "upDelete"
        /\ handleChangeEvent(prev'.ev) = "upDelete"
        /\ prev.ev.key = prev'.ev.key
        /\ prev.ev.full # prev'.ev.full)
            => LET later == IF prev'.n > prev.n THEN prev'.ev ELSE prev.ev
               IN  \A p \in pointsOf(index', later.key) : p.src = later.full]_vars

\* The call that has just returned failed at its embedding or its upsert step
FailedAfterDelete(r) ==
    /\ r.outcome = "failed"
    /\ r.calls \in {<<"delete", "embed">>, <<"delete", "embed", "upsert">>}

C24_ChunkTerminates ==
    /\ [](\A k \in 1..Len(chunking.windows) :
            /\ k > 1 => chunking.windows[k].start > chunking.windows[k - 1].start
            /\ chunking.windows[k].end >= Len(chunking.text)
                  => (chunking.pc = "done" /\ k = Len(chunking.windows)))
    /\ <>(chunking.pc = "done")

\* A call with an overlap of 100% or more has returned after three or more
\* windows, one of which started one character after the one before it
\* because the overlap would have held it back.
C24_Witness ==
    /\ chunking.pc = "done"
    /\ chunking.overlap >= 100
    /\ chunking.chunkSize >= 1
    /\ Len(chunking.windows) >= 3
    /\ \E k \in 2..Len(chunking.windows) :
          /\ chunking.windows[k].start = chunking.windows[k - 1].start + 1
          /\ chunking.windows[k - 1].end - overlapChars(chunking) <= chunking.windows[k - 1].start

\* The rule of the sentence boundary, for the windows taken so far: the end is
\* the tentative end unless the boundary found is less than 30% of the target
\* width away from it, and then it is that boundary.
ThirtyPercentRule(c) ==
    \A k \in 1..Len(c.windows) :
        LET w == c.windows[k]
        IN  IF 10 * Abs(w.boundary - w.tentative) < 3 * targetChunkChars(c)
            THEN w.end = w.boundary
            ELSE w.end = w.tentative

\* Every chunk that does not end at the end of the text has a span strictly
\* between 0.7 and 1.3 times the target width.
SpansNearTarget(c) ==
    \A k \in 1..Len(c.chunks) :
        LET span == c.chunks[k].endIndex - c.chunks[k].startIndex
        IN  c.chunks[k].endIndex # Len(c.text)
                => /\ 7 * targetChunkChars(c) < 10 * span
                   /\ 10 * span < 13 * targetChunkChars(c)

MarginalRelevance(c, r, selected) ==
    LET penalty == IF selected = <<>> THEN Zero
                   ELSE MaxSimilarity(r.vector.value, selected)
    IN  RAdd(RMul(c.lambda, Relevance(c, r)),
             RNeg(RMul(RAdd(One, RNeg(c.lambda)), penalty)))

C27_HighestScoreFirst ==
    (/\ reranked.done
     /\ reranked.fn = "applyDiversityReranking"
     /\ ~reranked.threw
     /\ \E k \in 1..Len(reranked.results) : hasVector(reranked.results[k]))
        => /\ reranked.out # <<>>
           /\ reranked.out[1].mmrRank = 1
           /\ hasVector(reranked.out[1])
           /\ \A k \in 1..Len(reranked.results) :
                 hasVector(reranked.results[k])
                     => ~RLess(reranked.out[1].score, reranked.results[k].score)

\* C30: for any list of candidates and any topK >= 0, applyMMR and
\* applyDiversityReranking return at most topK results, each an element of
\* the input and no candidate twice, with mmrRank 1..n in the order of the
\* output.
C30_AtMostTopKDistinctRanked ==
    (reranked.done /\ ~reranked.threw) =>
        /\ Len(reranked.out) <= reranked.topK
        /\ \A k \in 1..Len(reranked.out) :
              /\ \E j \in 1..Len(reranked.results) :
                    /\ reranked.results[j].id = reranked.out[k].id
                    /\ reranked.results[j].score = reranked.out[k].score
                    /\ reranked.results[j].vector = reranked.out[k].vector
              /\ reranked.out[k].mmrRank = k
        /\ NoRepeat([k \in 1..Len(reranked.out) |-> reranked.out[k].id])

\* The request in progress has its stats object: from `const stats = {...}`
\* to the reply.
StatsInUse(s) == s.pc \in {"cursor", "doc", "embed", "upsert", "close"}

IsPrefix(a, b) == Len(a) <= Len(b) /\ SubSeq(b, 1, Len(a)) = a

\* No counter of t is below its value in s, and no entry has left a list.
StatsGrew(s, t) ==
    /\ s.documentsProcessed <= t.documentsProcessed
    /\ s.documentsSkipped <= t.documentsSkipped
    /\ s.chunksCreated <= t.chunksCreated
    /\ s.pointsUpserted <= t.pointsUpserted
    /\ IsPrefix(s.errors, t.errors)
    /\ IsPrefix(s.preview, t.preview)

\* The documents of a counted step: at most one joins the counters, in one of
\* documentsProcessed, documentsSkipped and errors.
CountedInStep(s, t) ==
    (t.documentsProcessed - s.documentsProcessed) + (t.documentsSkipped - s.documentsSkipped)
        + (Len(t.errors) - Len(s.errors))

\* The step sends the reply of a completed run
RunCompleted ==
    /\ sync.pc = "close"
    /\ Len(replies') > Len(replies)
    /\ replies'[Len(replies')].code = 200

\* What the query of a request finds in the source
Found(body) == Len(find(body.onlyMissingEmbeddings))

\* A step of a run leaves every counter at least where it was, counts at most
\* one document, and hands the statistics to the reply as they stand.
StatsKept ==
    /\ (StatsInUse(sync) /\ StatsInUse(sync')) => StatsGrew(stats, stats')
    /\ (StatsInUse(sync) /\ StatsInUse(sync')) => CountedInStep(stats, stats') \in {0, 1}
    /\ RunCompleted => replies'[Len(replies')].data = stats

\* C28: the statistics of a bulk sync account for every document exactly
\* once: during a run no counter goes down and a step counts at most one
\* document, in one counter; the reply of a completed run carries the
\* statistics as they stand, and in it documentsProcessed + documentsSkipped
\* + |errors| is the number of documents read from the cursor, which is the
\* number of documents the query finds, whatever the batchSize and whichever
\* documents succeed, are skipped or fail.
C28_StatsAccountOnce ==
    /\ [][StatsKept]_vars
    /\ [](\A k \in 1..Len(replies) :
            replies[k].code = 200 =>
                /\ replies[k].data.documentsProcessed + replies[k].data.documentsSkipped
                      + Len(replies[k].data.errors) = replies[k].read
                /\ replies[k].read = Found(replies[k].body))

\* A run with batchSize 2 read two documents in one batch: one was skipped,
\* the other failed.
C28_Witness ==
    /\ replies # <<>>
    /\ replies[1].code = 200
    /\ replies[1].body.batchSize = 2
    /\ replies[1].read = 2
    /\ replies[1].data.documentsSkipped = 1
    /\ Len(replies[1].data.errors) = 1
    /\ replies[1].data.documentsProcessed = 0

====
